---- MODULE Spec2Model ----
(***************************************************************************)
(* Dual-representation (Binary / Textual) codec of the transaction object  *)
(* graph in sui-rust-sdk/src/types/transaction/serialization.rs, and the   *)
(* signing envelope built on it.                                           *)
(*                                                                         *)
(* A codec call is modelled as a small state machine: a value is           *)
(* serialized in a mode, the wire form may be altered in transit, it is    *)
(* deserialized, and a successfully decoded value is serialized again.     *)
(***************************************************************************)
EXTENDS Integers, Sequences, FiniteSets, TLC

\* ------------------------------------------------------------------ bounds
\* Opaque collaborators (Address, digests, GasPayment, ...) range over 0..MaxOpaque.
MaxOpaque == 1
\* Integers of a declared width range over MaxStep + 1 sample values.
MaxStep == 1
\* Lists (signatures, end-of-epoch commands, pure bytes) have at most MaxLen elements.
MaxLen == 2
\* A compiled module has at most MaxSize definitions, variants and fields in all.
MaxSize == 6

\* ------------------------------------------------------------ result values
Ok(v, rest) == [ok |-> TRUE, val |-> v, rest |-> rest]
Err(e) == [ok |-> FALSE, err |-> e]

\* The ? operator: an error is returned as it is, a value is handed on.
Bind(r, F(_)) == IF r.ok THEN F(r) ELSE r

\* Error values (serde::de::Error): the category, and what it was raised about.
SerdeError(kind, about) == [kind |-> kind, about |-> about]

\* -------------------------------------------------- canonical binary primitives
\* Variable-length unsigned integer: base-128, little-endian, minimal.
RECURSIVE EncUleb(_)
EncUleb(n) == IF n < 128 THEN <<n>> ELSE <<128 + (n % 128)>> \o EncUleb(n \div 128)

\* Reads at most 4 groups (values below 2^28); a longer or non-minimal
\* encoding is rejected, as is an input that ends inside the integer.
RECURSIVE DecUlebFrom(_, _, _, _)
DecUlebFrom(bs, acc, mult, groups) ==
    IF bs = <<>> THEN Err(SerdeError("unexpected_eof", "input"))
    ELSE IF Head(bs) < 128
         THEN IF Head(bs) = 0 /\ groups > 0 THEN Err(SerdeError("malformed_length", "uleb128"))
              ELSE Ok(acc + Head(bs) * mult, Tail(bs))
         ELSE IF groups >= 3 THEN Err(SerdeError("malformed_length", "uleb128"))
              ELSE DecUlebFrom(Tail(bs), acc + (Head(bs) - 128) * mult, mult * 128, groups + 1)

DecUleb(bs) == DecUlebFrom(bs, 0, 1, 0)

EncU8(n) == <<n>>

DecU8(bs) == IF bs = <<>> THEN Err(SerdeError("unexpected_eof", "input")) ELSE Ok(Head(bs), Tail(bs))

\* 16-bit unsigned, two bytes little-endian.
EncU16(n) == <<n % 256, n \div 256>>

DecU16(bs) ==
    IF Len(bs) < 2 THEN Err(SerdeError("unexpected_eof", "input"))
    ELSE Ok(bs[1] + 256 * bs[2], SubSeq(bs, 3, Len(bs)))

\* A 64-bit unsigned value is kept at full width as four 16-bit limbs,
\* least significant first; eight bytes little-endian on the wire.
EncU64(n) == EncU16(n[1]) \o EncU16(n[2]) \o EncU16(n[3]) \o EncU16(n[4])

DecU64(bs) ==
    IF Len(bs) < 8 THEN Err(SerdeError("unexpected_eof", "input"))
    ELSE Ok(<<bs[1] + 256 * bs[2], bs[3] + 256 * bs[4],
              bs[5] + 256 * bs[6], bs[7] + 256 * bs[8]>>, SubSeq(bs, 9, Len(bs)))

EncBool(b) == IF b THEN <<1>> ELSE <<0>>

DecBool(bs) ==
    IF bs = <<>> THEN Err(SerdeError("unexpected_eof", "input"))
    ELSE IF Head(bs) = 0 THEN Ok(FALSE, Tail(bs))
    ELSE IF Head(bs) = 1 THEN Ok(TRUE, Tail(bs))
    ELSE Err(SerdeError("invalid_bool", "bool"))

\* The encodings of a sequence's elements, one after the other.
RECURSIVE Concat(_)
Concat(parts) == IF parts = <<>> THEN <<>> ELSE Head(parts) \o Concat(Tail(parts))

\* Byte sequence: element count, then the bytes.
EncBytes(bytes) == EncUleb(Len(bytes)) \o bytes

DecBytes(bs) ==
    Bind(DecUleb(bs), LAMBDA n :
         IF Len(n.rest) < n.val THEN Err(SerdeError("unexpected_eof", "input"))
         ELSE Ok(SubSeq(n.rest, 1, n.val), SubSeq(n.rest, n.val + 1, Len(n.rest))))

\* Values of types declared outside this file (addresses, digests, payload
\* records, signatures): one byte on the wire, every byte accepted.
EncOpaque(k) == <<k>>

DecOpaque(bs) == IF bs = <<>> THEN Err(SerdeError("unexpected_eof", "input")) ELSE Ok(Head(bs), Tail(bs))

\* Discriminant of a sum type: the zero-based declaration index of the variant.
EncVariant(variants, name) ==
    EncUleb((CHOOSE i \in 1..Len(variants) : variants[i] = name) - 1)

DecVariant(variants, entity, bs) ==
    Bind(DecUleb(bs), LAMBDA n :
         IF n.val >= Len(variants) THEN Err(SerdeError("unknown_variant", entity))
         ELSE Ok(variants[n.val + 1], n.rest))

\* ---------------------------------------------------------- textual values
JName(s) == [j |-> "name", name |-> s]
JNum(n) == [j |-> "num", num |-> n]
JBool(b) == [j |-> "bool", bool |-> b]
JText(chars) == [j |-> "text", chars |-> chars]
JOpaque(k) == [j |-> "opaque", opaque |-> k]
JList(xs) == [j |-> "list", items |-> xs]
JObj(f) == [j |-> "obj", fields |-> f]

Without(f, keys) == [k \in (DOMAIN f) \ keys |-> f[k]]

Field(f, name, j) ==
    IF name \notin DOMAIN f THEN Err(SerdeError("missing_field", name))
    ELSE IF f[name].j # j THEN Err(SerdeError("invalid_type", name))
    ELSE Ok(f[name], <<>>)

\* A JSON number read as u16.
TextU16(f, name) ==
    Bind(Field(f, name, "num"), LAMBDA x :
         IF x.val.num < 0 \/ x.val.num > 65535 THEN Err(SerdeError("invalid_type", name))
         ELSE Ok(x.val.num, <<>>))

\* ---------------------------------------- decimal text of a 64-bit value
DigitChars == <<"0", "1", "2", "3", "4", "5", "6", "7", "8", "9">>

\* Long division of the four limbs by ten: quotient limbs and remainder.
DivMod10(n) ==
    LET c4 == n[4]
        c3 == (c4 % 10) * 65536 + n[3]
        c2 == (c3 % 10) * 65536 + n[2]
        c1 == (c2 % 10) * 65536 + n[1]
    IN [q |-> <<c1 \div 10, c2 \div 10, c3 \div 10, c4 \div 10>>, r |-> c1 % 10]

RECURSIVE DecimalDigits(_)
DecimalDigits(n) ==
    IF n = <<0, 0, 0, 0>> THEN <<>>
    ELSE DecimalDigits(DivMod10(n).q) \o <<DigitChars[DivMod10(n).r + 1]>>

\* n * 10 + d on the limbs, with the carry out of the top limb.
MulAdd10(n, d) ==
    LET c1 == n[1] * 10 + d
        c2 == n[2] * 10 + c1 \div 65536
        c3 == n[3] * 10 + c2 \div 65536
        c4 == n[4] * 10 + c3 \div 65536
    IN [val |-> <<c1 % 65536, c2 % 65536, c3 % 65536, c4 % 65536>>,
        carry |-> c4 \div 65536]

RECURSIVE ParseDigits(_, _)
ParseDigits(chars, acc) ==
    IF chars = <<>> THEN Ok(acc, <<>>)
    ELSE IF \A d \in 1..10 : DigitChars[d] # Head(chars)
         THEN Err(SerdeError("malformed_integer", "u64"))
    ELSE LET m == MulAdd10(acc, (CHOOSE d \in 1..10 : DigitChars[d] = Head(chars)) - 1) IN
         IF m.carry # 0 THEN Err(SerdeError("malformed_integer", "u64"))
         ELSE ParseDigits(Tail(chars), m.val)

\* ReadableDisplay: the value as the text of its Display form ...
ReadableDisplaySerialize(n) ==
    JText(IF n = <<0, 0, 0, 0>> THEN <<"0">> ELSE DecimalDigits(n))

\* ... read back with FromStr: an optional plus sign, then at least one digit.
ReadableDisplayDeserialize(f, name) ==
    Bind(Field(f, name, "text"), LAMBDA x :
         IF x.val.chars = <<>> \/ x.val.chars = <<"+">>
         THEN Err(SerdeError("malformed_integer", "u64"))
         ELSE ParseDigits(IF Head(x.val.chars) = "+" THEN Tail(x.val.chars)
                          ELSE x.val.chars,
                          <<0, 0, 0, 0>>))

\* ------------------------------------------------- base64 text of a byte payload
Base64Alphabet ==
    <<"A", "B", "C", "D", "E", "F", "G", "H", "I", "J", "K", "L", "M", "N", "O", "P",
     "Q", "R", "S", "T", "U", "V", "W", "X", "Y", "Z", "a", "b", "c", "d", "e", "f",
     "g", "h", "i", "j", "k", "l", "m", "n", "o", "p", "q", "r", "s", "t", "u", "v",
     "w", "x", "y", "z", "0", "1", "2", "3", "4", "5", "6", "7", "8", "9", "+", "/">>

\* The 6-bit value of a character, or 64 for a character outside the alphabet.
SextetValue(c) ==
    IF \E k \in 1..64 : Base64Alphabet[k] = c
    THEN (CHOOSE k \in 1..64 : Base64Alphabet[k] = c) - 1
    ELSE 64

\* The character of a 6-bit value.
Sextet(k) == Base64Alphabet[k + 1]

RECURSIVE Base64Encode(_)
Base64Encode(bytes) ==
    IF bytes = <<>> THEN <<>>
    ELSE IF Len(bytes) = 1
         THEN <<Sextet(bytes[1] \div 4), Sextet((bytes[1] % 4) * 16), "=", "=">>
    ELSE IF Len(bytes) = 2
         THEN <<Sextet(bytes[1] \div 4), Sextet((bytes[1] % 4) * 16 + bytes[2] \div 16),
                Sextet((bytes[2] % 16) * 4), "=">>
    ELSE <<Sextet(bytes[1] \div 4), Sextet((bytes[1] % 4) * 16 + bytes[2] \div 16),
           Sextet((bytes[2] % 16) * 4 + bytes[3] \div 64), Sextet(bytes[3] % 64)>>
         \o Base64Encode(SubSeq(bytes, 4, Len(bytes)))

\* Strict decoding: whole groups of four, padding only at the end, no stray bits.
RECURSIVE Base64Decode(_)
Base64Decode(chars) ==
    IF chars = <<>> THEN Ok(<<>>, <<>>)
    ELSE IF Len(chars) < 4 THEN Err(SerdeError("malformed_byte_payload", "base64"))
    ELSE IF SextetValue(chars[1]) = 64 \/ SextetValue(chars[2]) = 64 THEN Err(SerdeError("malformed_byte_payload", "base64"))
    ELSE LET s1 == SextetValue(chars[1])
             s2 == SextetValue(chars[2])
             b1 == s1 * 4 + s2 \div 16
         IN
         IF chars[3] = "="
         THEN IF Len(chars) = 4 /\ chars[4] = "=" /\ s2 % 16 = 0
              THEN Ok(<<b1>>, <<>>) ELSE Err(SerdeError("malformed_byte_payload", "base64"))
         ELSE IF SextetValue(chars[3]) = 64 THEN Err(SerdeError("malformed_byte_payload", "base64"))
         ELSE LET s3 == SextetValue(chars[3])
                  b2 == (s2 % 16) * 16 + s3 \div 4
              IN
              IF chars[4] = "="
              THEN IF Len(chars) = 4 /\ s3 % 4 = 0
                   THEN Ok(<<b1, b2>>, <<>>) ELSE Err(SerdeError("malformed_byte_payload", "base64"))
              ELSE IF SextetValue(chars[4]) = 64 THEN Err(SerdeError("malformed_byte_payload", "base64"))
              ELSE LET more == Base64Decode(SubSeq(chars, 5, Len(chars))) IN
                   IF ~more.ok THEN more
                   ELSE Ok(<<b1, b2, (s3 % 4) * 64 + SextetValue(chars[4])>> \o more.val, <<>>)

\* Base64Encoded: the bytes as base64 text.
Base64EncodedSerialize(bytes) == JText(Base64Encode(bytes))

Base64EncodedDeserialize(f, name) ==
    Bind(Field(f, name, "text"), LAMBDA x : Base64Decode(x.val.chars))

\* Values of types declared outside this file, in Textual mode: a scalar ...
TextOpaque(f, name) ==
    Bind(Field(f, name, "opaque"), LAMBDA x : Ok(x.val.opaque, <<>>))

\* ... or, for a payload record, its named fields.
PayloadFields(k) == "payload" :> JOpaque(k)

\* ------------------------------------------------------------------ sample values
Opaque == 0..MaxOpaque
U16Values == {k * 258 : k \in 0..MaxStep}
U64Values == {<<k, 0, 0, 32 * k>> : k \in 0..MaxStep}

\* ------------------------------------------------------------------- Argument
GasCoin == [tag |-> "GasCoin"]
Input(i) == [tag |-> "Input", input |-> i]
Result(i) == [tag |-> "Result", result |-> i]
NestedResult(i, j) == [tag |-> "NestedResult", result |-> i, subresult |-> j]

Arguments ==
    {GasCoin} \cup {Input(i) : i \in U16Values} \cup {Result(i) : i \in U16Values}
    \cup {NestedResult(i, j) : i \in U16Values, j \in U16Values}

\* enum BinaryArgument, in declaration order.
BinaryArgumentVariants == <<"GasCoin", "Input", "Result", "NestedResult">>

\* enum ReadableArgument: variant and its snake_case name.
ReadableArgumentNames ==
    [GasCoin |-> "gas_coin", Input |-> "input", Result |-> "result",
     NestedResult |-> "nested_result"]

\* match *self { Argument::X(..) => BinaryArgument::X(..) }
\* Variant: Argument::Result is written as BinaryArgument::Input.
ArgumentToBinaryResultAsInput(a) ==
    CASE a.tag = "GasCoin" -> [variant |-> "GasCoin"]
      [] a.tag = "Input" -> [variant |-> "Input", f0 |-> a.input]
      [] a.tag = "Result" -> [variant |-> "Input", f0 |-> a.result]
      [] a.tag = "NestedResult" ->
            [variant |-> "NestedResult", f0 |-> a.result, f1 |-> a.subresult]

ArgumentToBinary(a) ==
    CASE a.tag = "GasCoin" -> [variant |-> "GasCoin"]
      [] a.tag = "Input" -> [variant |-> "Input", f0 |-> a.input]
      [] a.tag = "Result" -> [variant |-> "Result", f0 |-> a.result]
      [] a.tag = "NestedResult" ->
            [variant |-> "NestedResult", f0 |-> a.result, f1 |-> a.subresult]

\* Variant: BinaryArgument::Result is taken for Argument::Input.
ArgumentFromBinaryResultAsInput(b) ==
    CASE b.variant = "GasCoin" -> GasCoin
      [] b.variant = "Input" -> Input(b.f0)
      [] b.variant = "Result" -> Input(b.f0)
      [] b.variant = "NestedResult" -> NestedResult(b.f0, b.f1)

ArgumentFromBinary(b) ==
    CASE b.variant = "GasCoin" -> GasCoin
      [] b.variant = "Input" -> Input(b.f0)
      [] b.variant = "Result" -> Result(b.f0)
      [] b.variant = "NestedResult" -> NestedResult(b.f0, b.f1)

\* Variant: NestedResult's two indices change places.
ArgumentToReadableIndicesSwapped(a) ==
    CASE a.tag = "GasCoin" -> [variant |-> "GasCoin"]
      [] a.tag = "Input" -> [variant |-> "Input", input |-> a.input]
      [] a.tag = "Result" -> [variant |-> "Result", result |-> a.result]
      [] a.tag = "NestedResult" ->
            [variant |-> "NestedResult", result |-> a.subresult, subresult |-> a.result]

ArgumentToReadable(a) ==
    CASE a.tag = "GasCoin" -> [variant |-> "GasCoin"]
      [] a.tag = "Input" -> [variant |-> "Input", input |-> a.input]
      [] a.tag = "Result" -> [variant |-> "Result", result |-> a.result]
      [] a.tag = "NestedResult" ->
            [variant |-> "NestedResult", result |-> a.result, subresult |-> a.subresult]

ArgumentFromReadable(r) ==
    CASE r.variant = "GasCoin" -> GasCoin
      [] r.variant = "Input" -> Input(r.input)
      [] r.variant = "Result" -> Result(r.result)
      [] r.variant = "NestedResult" -> NestedResult(r.result, r.subresult)

BinaryArgumentSerialize(b) ==
    EncVariant(BinaryArgumentVariants, b.variant) \o
    (CASE b.variant = "GasCoin" -> <<>>
       [] b.variant = "Input" -> EncU16(b.f0)
       [] b.variant = "Result" -> EncU16(b.f0)
       [] b.variant = "NestedResult" -> EncU16(b.f0) \o EncU16(b.f1))

BinaryArgumentDeserialize(bs) ==
    Bind(DecVariant(BinaryArgumentVariants, "BinaryArgument", bs), LAMBDA t :
         IF t.val = "GasCoin" THEN Ok([variant |-> "GasCoin"], t.rest)
         ELSE Bind(DecU16(t.rest), LAMBDA a :
              IF t.val \in {"Input", "Result"}
              THEN Ok([variant |-> t.val, f0 |-> a.val], a.rest)
              ELSE Bind(DecU16(a.rest), LAMBDA b :
                   Ok([variant |-> "NestedResult", f0 |-> a.val, f1 |-> b.val], b.rest))))

ReadableArgumentSerialize(r) ==
    ("type" :> JName(ReadableArgumentNames[r.variant])) @@
    (CASE r.variant = "GasCoin" -> [k \in {} |-> 0]
       [] r.variant = "Input" -> "input" :> JNum(r.input)
       [] r.variant = "Result" -> "result" :> JNum(r.result)
       [] r.variant = "NestedResult" ->
             ("result" :> JNum(r.result)) @@ ("subresult" :> JNum(r.subresult)))

\* The variant a discriminant name denotes, among an enum's names.
VariantNamed(names, entity, f, tagField) ==
    Bind(Field(f, tagField, "name"), LAMBDA t :
         IF \A v \in DOMAIN names : names[v] # t.val.name
         THEN Err(SerdeError("unknown_variant", entity))
         ELSE Ok(CHOOSE v \in DOMAIN names : names[v] = t.val.name, <<>>))

ReadableArgumentDeserialize(f) ==
    Bind(VariantNamed(ReadableArgumentNames, "Argument", f, "type"), LAMBDA t :
         CASE t.val = "GasCoin" -> Ok([variant |-> "GasCoin"], <<>>)
           [] t.val = "Input" ->
                 Bind(TextU16(f, "input"), LAMBDA i :
                      Ok([variant |-> "Input", input |-> i.val], <<>>))
           [] t.val = "Result" ->
                 Bind(TextU16(f, "result"), LAMBDA r :
                      Ok([variant |-> "Result", result |-> r.val], <<>>))
           [] t.val = "NestedResult" ->
                 Bind(TextU16(f, "result"), LAMBDA r :
                 Bind(TextU16(f, "subresult"), LAMBDA s :
                      Ok([variant |-> "NestedResult", result |-> r.val,
                          subresult |-> s.val], <<>>))))

\* impl Serialize for Argument
ArgumentSerialize(a, human) ==
    IF human THEN ReadableArgumentSerialize(ArgumentToReadable(a))
    ELSE BinaryArgumentSerialize(ArgumentToBinary(a))

\* impl Deserialize for Argument: the wire enum, then .map(|w| match w { .. })
ArgumentDeserialize(w, human) ==
    IF human
    THEN Bind(ReadableArgumentDeserialize(w), LAMBDA r :
              Ok(ArgumentFromReadable(r.val), r.rest))
    ELSE Bind(BinaryArgumentDeserialize(w), LAMBDA b :
              Ok(ArgumentFromBinary(b.val), b.rest))

\* ---------------------------------------------------------------- lists
SeqsUpTo(S, n) == UNION {[1..k -> S] : k \in 0..n}

\* ------------------------------------------------------------- ObjectReference
ObjectReference(id, version, digest) ==
    [object_id |-> id, version |-> version, digest |-> digest]

ObjectReferences ==
    {ObjectReference(id, v, d) : id \in Opaque, v \in U64Values, d \in Opaque}

ObjectReferenceBinary(ref) ==
    EncOpaque(ref.object_id) \o EncU64(ref.version) \o EncOpaque(ref.digest)

BinaryObjectReference(bs) ==
    Bind(DecOpaque(bs), LAMBDA id :
    Bind(DecU64(id.rest), LAMBDA v :
    Bind(DecOpaque(v.rest), LAMBDA d :
         Ok(ObjectReference(id.val, v.val, d.val), d.rest))))

ObjectReferenceFields(ref) ==
    ("object_id" :> JOpaque(ref.object_id)) @@
    ("version" :> ReadableDisplaySerialize(ref.version)) @@
    ("digest" :> JOpaque(ref.digest))

FieldsObjectReference(f) ==
    Bind(TextOpaque(f, "object_id"), LAMBDA id :
    Bind(ReadableDisplayDeserialize(f, "version"), LAMBDA v :
    Bind(TextOpaque(f, "digest"), LAMBDA d :
         Ok(ObjectReference(id.val, v.val, d.val), <<>>))))

\* --------------------------------------------------------------- InputArgument
Pure(value) == [tag |-> "Pure", value |-> value]
ImmutableOrOwned(ref) == [tag |-> "ImmutableOrOwned", object_ref |-> ref]
Shared(id, version, mutable) ==
    [tag |-> "Shared", object_id |-> id, initial_shared_version |-> version,
     mutable |-> mutable]
Receiving(ref) == [tag |-> "Receiving", object_ref |-> ref]

PureValues == SeqsUpTo({1, 255}, MaxLen) \cup {<<1, 2, 3, 4>>}

InputArguments ==
    {Pure(b) : b \in PureValues}
    \cup {ImmutableOrOwned(r) : r \in ObjectReferences}
    \cup {Shared(id, v, m) : id \in Opaque, v \in U64Values, m \in BOOLEAN}
    \cup {Receiving(r) : r \in ObjectReferences}

\* enum ReadableInputArgument: variant and its snake_case name.
ReadableInputArgumentNames ==
    [Pure |-> "pure", ImmutableOrOwned |-> "immutable_or_owned", Shared |-> "shared",
     Receiving |-> "receiving"]

\* enum CallArg and enum ObjectArg, in declaration order.
CallArgVariants == <<"Pure", "Object">>
ObjectArgVariants == <<"ImmutableOrOwned", "Shared", "Receiving">>

\* match self.clone() { InputArgument::X => ReadableInputArgument::X }
\* Variant: a Receiving argument is written as ReadableInputArgument::ImmutableOrOwned.
InputArgumentToReadableReceivingAsOwned(a) ==
    CASE a.tag = "Pure" -> [variant |-> "Pure", value |-> a.value]
      [] a.tag \in {"ImmutableOrOwned", "Receiving"} ->
            [variant |-> "ImmutableOrOwned", f0 |-> a.object_ref]
      [] a.tag = "Shared" ->
            [variant |-> "Shared", object_id |-> a.object_id,
             initial_shared_version |-> a.initial_shared_version, mutable |-> a.mutable]

InputArgumentToReadable(a) ==
    CASE a.tag = "Pure" -> [variant |-> "Pure", value |-> a.value]
      [] a.tag = "ImmutableOrOwned" -> [variant |-> "ImmutableOrOwned", f0 |-> a.object_ref]
      [] a.tag = "Shared" ->
            [variant |-> "Shared", object_id |-> a.object_id,
             initial_shared_version |-> a.initial_shared_version, mutable |-> a.mutable]
      [] a.tag = "Receiving" -> [variant |-> "Receiving", f0 |-> a.object_ref]

InputArgumentFromReadable(r) ==
    CASE r.variant = "Pure" -> Pure(r.value)
      [] r.variant = "ImmutableOrOwned" -> ImmutableOrOwned(r.f0)
      [] r.variant = "Shared" -> Shared(r.object_id, r.initial_shared_version, r.mutable)
      [] r.variant = "Receiving" -> Receiving(r.f0)

\* match self.clone() { InputArgument::X => CallArg::.. }
\* Variant: a Receiving argument is written as ObjectArg::ImmutableOrOwned.
InputArgumentToCallArgReceivingAsOwned(a) ==
    CASE a.tag = "Pure" -> [variant |-> "Pure", f0 |-> a.value]
      [] a.tag \in {"ImmutableOrOwned", "Receiving"} ->
            [variant |-> "Object", f0 |-> [variant |-> "ImmutableOrOwned", f0 |-> a.object_ref]]
      [] a.tag = "Shared" ->
            [variant |-> "Object",
             f0 |-> [variant |-> "Shared", object_id |-> a.object_id,
                     initial_shared_version |-> a.initial_shared_version,
                     mutable |-> a.mutable]]

InputArgumentToCallArg(a) ==
    CASE a.tag = "Pure" -> [variant |-> "Pure", f0 |-> a.value]
      [] a.tag = "ImmutableOrOwned" ->
            [variant |-> "Object", f0 |-> [variant |-> "ImmutableOrOwned", f0 |-> a.object_ref]]
      [] a.tag = "Shared" ->
            [variant |-> "Object",
             f0 |-> [variant |-> "Shared", object_id |-> a.object_id,
                     initial_shared_version |-> a.initial_shared_version,
                     mutable |-> a.mutable]]
      [] a.tag = "Receiving" ->
            [variant |-> "Object", f0 |-> [variant |-> "Receiving", f0 |-> a.object_ref]]

\* Variant: a Receiving object argument is taken for an ImmutableOrOwned one.
InputArgumentFromCallArgReceivingAsOwned(c) ==
    IF c.variant = "Pure" THEN Pure(c.f0)
    ELSE CASE c.f0.variant = "ImmutableOrOwned" -> ImmutableOrOwned(c.f0.f0)
           [] c.f0.variant = "Shared" ->
                 Shared(c.f0.object_id, c.f0.initial_shared_version, c.f0.mutable)
           [] c.f0.variant = "Receiving" -> ImmutableOrOwned(c.f0.f0)

InputArgumentFromCallArg(c) ==
    IF c.variant = "Pure" THEN Pure(c.f0)
    ELSE CASE c.f0.variant = "ImmutableOrOwned" -> ImmutableOrOwned(c.f0.f0)
           [] c.f0.variant = "Shared" ->
                 Shared(c.f0.object_id, c.f0.initial_shared_version, c.f0.mutable)
           [] c.f0.variant = "Receiving" -> Receiving(c.f0.f0)

ObjectArgSerialize(o) ==
    EncVariant(ObjectArgVariants, o.variant) \o
    (CASE o.variant = "ImmutableOrOwned" -> ObjectReferenceBinary(o.f0)
       [] o.variant = "Shared" ->
             EncOpaque(o.object_id) \o EncU64(o.initial_shared_version) \o EncBool(o.mutable)
       [] o.variant = "Receiving" -> ObjectReferenceBinary(o.f0))

\* Variant: an index past the last ObjectArg variant is read as Receiving.
ObjectArgDeserializeLenient(bs) ==
    Bind(DecUleb(bs), LAMBDA n :
         IF n.val < Len(ObjectArgVariants) /\ ObjectArgVariants[n.val + 1] = "Shared"
         THEN Bind(DecOpaque(n.rest), LAMBDA id :
              Bind(DecU64(id.rest), LAMBDA v :
              Bind(DecBool(v.rest), LAMBDA m :
                   Ok([variant |-> "Shared", object_id |-> id.val,
                       initial_shared_version |-> v.val, mutable |-> m.val], m.rest))))
         ELSE Bind(BinaryObjectReference(n.rest), LAMBDA r :
                   Ok([variant |-> IF n.val < Len(ObjectArgVariants)
                                   THEN ObjectArgVariants[n.val + 1] ELSE "Receiving",
                       f0 |-> r.val], r.rest)))

ObjectArgDeserialize(bs) ==
    Bind(DecVariant(ObjectArgVariants, "ObjectArg", bs), LAMBDA t :
         IF t.val = "Shared"
         THEN Bind(DecOpaque(t.rest), LAMBDA id :
              Bind(DecU64(id.rest), LAMBDA v :
              Bind(DecBool(v.rest), LAMBDA m :
                   Ok([variant |-> "Shared", object_id |-> id.val,
                       initial_shared_version |-> v.val, mutable |-> m.val], m.rest))))
         ELSE Bind(BinaryObjectReference(t.rest), LAMBDA r :
                   Ok([variant |-> t.val, f0 |-> r.val], r.rest)))

CallArgSerialize(c) ==
    EncVariant(CallArgVariants, c.variant) \o
    (IF c.variant = "Pure" THEN EncBytes(c.f0) ELSE ObjectArgSerialize(c.f0))

CallArgDeserialize(bs) ==
    Bind(DecVariant(CallArgVariants, "CallArg", bs), LAMBDA t :
         IF t.val = "Pure"
         THEN Bind(DecBytes(t.rest), LAMBDA b : Ok([variant |-> "Pure", f0 |-> b.val], b.rest))
         ELSE Bind(ObjectArgDeserialize(t.rest), LAMBDA o :
                   Ok([variant |-> "Object", f0 |-> o.val], o.rest)))

\* Variant: initial_shared_version is written as a number, not as decimal text.
ReadableInputArgumentSerializeNumeric(r) ==
    ("type" :> JName(ReadableInputArgumentNames[r.variant])) @@
    (CASE r.variant = "Pure" -> "value" :> Base64EncodedSerialize(r.value)
       [] r.variant = "ImmutableOrOwned" -> ObjectReferenceFields(r.f0)
       [] r.variant = "Shared" ->
             ("object_id" :> JOpaque(r.object_id)) @@
             ("initial_shared_version" :> JNum(r.initial_shared_version)) @@
             ("mutable" :> JBool(r.mutable))
       [] r.variant = "Receiving" -> ObjectReferenceFields(r.f0))

ReadableInputArgumentSerialize(r) ==
    ("type" :> JName(ReadableInputArgumentNames[r.variant])) @@
    (CASE r.variant = "Pure" -> "value" :> Base64EncodedSerialize(r.value)
       [] r.variant = "ImmutableOrOwned" -> ObjectReferenceFields(r.f0)
       [] r.variant = "Shared" ->
             ("object_id" :> JOpaque(r.object_id)) @@
             ("initial_shared_version" :> ReadableDisplaySerialize(r.initial_shared_version)) @@
             ("mutable" :> JBool(r.mutable))
       [] r.variant = "Receiving" -> ObjectReferenceFields(r.f0))

\* Variant: an initial_shared_version that does not parse is read as zero.
ReadableInputArgumentDeserializeDefaulting(f) ==
    Bind(VariantNamed(ReadableInputArgumentNames, "ReadableInputArgument", f, "type"),
         LAMBDA t :
         CASE t.val = "Pure" ->
                 Bind(Base64EncodedDeserialize(f, "value"), LAMBDA b :
                      Ok([variant |-> "Pure", value |-> b.val], <<>>))
           [] t.val = "Shared" ->
                 Bind(TextOpaque(f, "object_id"), LAMBDA id :
                 Bind(Field(f, "mutable", "bool"), LAMBDA m :
                      Ok([variant |-> "Shared", object_id |-> id.val,
                          initial_shared_version |->
                              IF ReadableDisplayDeserialize(f, "initial_shared_version").ok
                              THEN ReadableDisplayDeserialize(f, "initial_shared_version").val
                              ELSE <<0, 0, 0, 0>>,
                          mutable |-> m.val.bool],
                         <<>>)))
           [] OTHER ->
                 Bind(FieldsObjectReference(f), LAMBDA r :
                      Ok([variant |-> t.val, f0 |-> r.val], <<>>)))

ReadableInputArgumentDeserialize(f) ==
    Bind(VariantNamed(ReadableInputArgumentNames, "ReadableInputArgument", f, "type"),
         LAMBDA t :
         CASE t.val = "Pure" ->
                 Bind(Base64EncodedDeserialize(f, "value"), LAMBDA b :
                      Ok([variant |-> "Pure", value |-> b.val], <<>>))
           [] t.val = "Shared" ->
                 Bind(TextOpaque(f, "object_id"), LAMBDA id :
                 Bind(ReadableDisplayDeserialize(f, "initial_shared_version"), LAMBDA v :
                 Bind(Field(f, "mutable", "bool"), LAMBDA m :
                      Ok([variant |-> "Shared", object_id |-> id.val,
                          initial_shared_version |-> v.val, mutable |-> m.val.bool],
                         <<>>))))
           [] OTHER ->
                 Bind(FieldsObjectReference(f), LAMBDA r :
                      Ok([variant |-> t.val, f0 |-> r.val], <<>>)))

\* impl Serialize for InputArgument
InputArgumentSerialize(a, human) ==
    IF human THEN ReadableInputArgumentSerialize(InputArgumentToReadable(a))
    ELSE CallArgSerialize(InputArgumentToCallArg(a))

\* impl Deserialize for InputArgument
InputArgumentDeserialize(w, human) ==
    IF human
    THEN Bind(ReadableInputArgumentDeserialize(w), LAMBDA r :
              Ok(InputArgumentFromReadable(r.val), r.rest))
    ELSE Bind(CallArgDeserialize(w), LAMBDA c :
              Ok(InputArgumentFromCallArg(c.val), c.rest))

\* ------------------------------------------- enums of single-payload variants
\* A derived enum whose variants each wrap one payload record declared
\* outside this file: discriminant, then the payload.
NewtypeBinarySerialize(variants, w) == EncVariant(variants, w.variant) \o EncOpaque(w.f0)

NewtypeBinaryDeserialize(variants, entity, bs) ==
    Bind(DecVariant(variants, entity, bs), LAMBDA t :
    Bind(DecOpaque(t.rest), LAMBDA p : Ok([variant |-> t.val, f0 |-> p.val], p.rest)))

\* Internally tagged: the discriminant name and the payload's fields in one object.
NewtypeReadableSerialize(names, tagField, w) ==
    (tagField :> JName(names[w.variant])) @@ PayloadFields(w.f0)

NewtypeReadableDeserialize(names, entity, tagField, f) ==
    Bind(VariantNamed(names, entity, f, tagField), LAMBDA t :
    Bind(TextOpaque(f, "payload"), LAMBDA p : Ok([variant |-> t.val, f0 |-> p.val], <<>>)))

\* --------------------------------------------------------------------- Command
CommandTags == {"MoveCall", "TransferObjects", "SplitCoins", "MergeCoins",
                "Publish", "MakeMoveVector", "Upgrade"}

Commands == {[tag |-> t, payload |-> p] : t \in CommandTags, p \in Opaque}

\* enum BinaryCommandRef / BinaryCommand, in declaration order.
BinaryCommandVariants ==
    <<"MoveCall", "TransferObjects", "SplitCoins", "MergeCoins", "Publish",
      "MakeMoveVector", "Upgrade">>

\* enum ReadableCommandRef / ReadableCommand: variant and its snake_case name.
ReadableCommandNames ==
    [MoveCall |-> "move_call", TransferObjects |-> "transfer_objects",
     SplitCoins |-> "split_coins", MergeCoins |-> "merge_coins", Publish |-> "publish",
     MakeMoveVector |-> "make_move_vector", Upgrade |-> "upgrade"]

\* match self { Command::X(c) => ReadableCommandRef::X(c) }
CommandToReadable(c) ==
    CASE c.tag = "MoveCall" -> [variant |-> "MoveCall", f0 |-> c.payload]
      [] c.tag = "TransferObjects" -> [variant |-> "TransferObjects", f0 |-> c.payload]
      [] c.tag = "SplitCoins" -> [variant |-> "SplitCoins", f0 |-> c.payload]
      [] c.tag = "MergeCoins" -> [variant |-> "MergeCoins", f0 |-> c.payload]
      [] c.tag = "Publish" -> [variant |-> "Publish", f0 |-> c.payload]
      [] c.tag = "MakeMoveVector" -> [variant |-> "MakeMoveVector", f0 |-> c.payload]
      [] c.tag = "Upgrade" -> [variant |-> "Upgrade", f0 |-> c.payload]

\* match self { Command::X(c) => BinaryCommandRef::X(c) }
CommandToBinary(c) ==
    CASE c.tag = "MoveCall" -> [variant |-> "MoveCall", f0 |-> c.payload]
      [] c.tag = "TransferObjects" -> [variant |-> "TransferObjects", f0 |-> c.payload]
      [] c.tag = "SplitCoins" -> [variant |-> "SplitCoins", f0 |-> c.payload]
      [] c.tag = "MergeCoins" -> [variant |-> "MergeCoins", f0 |-> c.payload]
      [] c.tag = "Publish" -> [variant |-> "Publish", f0 |-> c.payload]
      [] c.tag = "MakeMoveVector" -> [variant |-> "MakeMoveVector", f0 |-> c.payload]
      [] c.tag = "Upgrade" -> [variant |-> "Upgrade", f0 |-> c.payload]

\* .map(|readable| match readable { ReadableCommand::X(c) => Command::X(c) })
CommandFromReadable(r) ==
    CASE r.variant = "MoveCall" -> [tag |-> "MoveCall", payload |-> r.f0]
      [] r.variant = "TransferObjects" -> [tag |-> "TransferObjects", payload |-> r.f0]
      [] r.variant = "SplitCoins" -> [tag |-> "SplitCoins", payload |-> r.f0]
      [] r.variant = "MergeCoins" -> [tag |-> "MergeCoins", payload |-> r.f0]
      [] r.variant = "Publish" -> [tag |-> "Publish", payload |-> r.f0]
      [] r.variant = "MakeMoveVector" -> [tag |-> "MakeMoveVector", payload |-> r.f0]
      [] r.variant = "Upgrade" -> [tag |-> "Upgrade", payload |-> r.f0]

\* .map(|binary| match binary { BinaryCommand::X(c) => Command::X(c) })
CommandFromBinary(b) ==
    CASE b.variant = "MoveCall" -> [tag |-> "MoveCall", payload |-> b.f0]
      [] b.variant = "TransferObjects" -> [tag |-> "TransferObjects", payload |-> b.f0]
      [] b.variant = "SplitCoins" -> [tag |-> "SplitCoins", payload |-> b.f0]
      [] b.variant = "MergeCoins" -> [tag |-> "MergeCoins", payload |-> b.f0]
      [] b.variant = "Publish" -> [tag |-> "Publish", payload |-> b.f0]
      [] b.variant = "MakeMoveVector" -> [tag |-> "MakeMoveVector", payload |-> b.f0]
      [] b.variant = "Upgrade" -> [tag |-> "Upgrade", payload |-> b.f0]

\* impl Serialize for Command
CommandSerialize(c, human) ==
    IF human THEN NewtypeReadableSerialize(ReadableCommandNames, "command", CommandToReadable(c))
    ELSE NewtypeBinarySerialize(BinaryCommandVariants, CommandToBinary(c))

\* impl Deserialize for Command
CommandDeserialize(w, human) ==
    IF human
    THEN Bind(NewtypeReadableDeserialize(ReadableCommandNames, "ReadableCommand",
                                         "command", w),
              LAMBDA r : Ok(CommandFromReadable(r.val), r.rest))
    ELSE Bind(NewtypeBinaryDeserialize(BinaryCommandVariants, "BinaryCommand", w),
              LAMBDA b : Ok(CommandFromBinary(b.val), b.rest))

\* --------------------------------------------------- EndOfEpochTransactionKind
EndOfEpochUnitTags ==
    {"AuthenticatorStateCreate", "RandomnessStateCreate", "DenyListStateCreate"}

EndOfEpochTransactionKinds ==
    {[tag |-> t] : t \in EndOfEpochUnitTags}
    \cup {[tag |-> t, payload |-> p] : t \in {"ChangeEpoch", "AuthenticatorStateExpire"},
                                       p \in Opaque}
    \cup {[tag |-> "BridgeStateCreate", chain_id |-> d] : d \in Opaque}
    \cup {[tag |-> "BridgeCommitteeInit", bridge_object_version |-> v] : v \in U64Values}

\* enum BinaryEndOfEpochTransactionKindRef / BinaryEndOfEpochTransactionKind.
BinaryEndOfEpochVariants ==
    <<"ChangeEpoch", "AuthenticatorStateCreate", "AuthenticatorStateExpire",
      "RandomnessStateCreate", "DenyListStateCreate", "BridgeStateCreate",
      "BridgeCommitteeInit">>

\* enum ReadableEndOfEpochTransactionKindRef / ReadableEndOfEpochTransactionKind.
ReadableEndOfEpochNames ==
    [ChangeEpoch |-> "change_epoch",
     AuthenticatorStateCreate |-> "authenticator_state_create",
     AuthenticatorStateExpire |-> "authenticator_state_expire",
     RandomnessStateCreate |-> "randomness_state_create",
     DenyListStateCreate |-> "deny_list_state_create",
     BridgeStateCreate |-> "bridge_state_create",
     BridgeCommitteeInit |-> "bridge_committee_init"]

\* match self { Self::X => ReadableEndOfEpochTransactionKindRef::X }
EndOfEpochToReadable(k) ==
    CASE k.tag = "ChangeEpoch" -> [variant |-> "ChangeEpoch", f0 |-> k.payload]
      [] k.tag = "AuthenticatorStateCreate" -> [variant |-> "AuthenticatorStateCreate"]
      [] k.tag = "AuthenticatorStateExpire" -> [variant |-> "AuthenticatorStateExpire", f0 |-> k.payload]
      [] k.tag = "RandomnessStateCreate" -> [variant |-> "RandomnessStateCreate"]
      [] k.tag = "DenyListStateCreate" -> [variant |-> "DenyListStateCreate"]
      [] k.tag = "BridgeStateCreate" -> [variant |-> "BridgeStateCreate", chain_id |-> k.chain_id]
      [] k.tag = "BridgeCommitteeInit" -> 
            [variant |-> "BridgeCommitteeInit", bridge_object_version |-> k.bridge_object_version]

\* match self { Self::X => BinaryEndOfEpochTransactionKindRef::X }
EndOfEpochToBinary(k) ==
    CASE k.tag = "ChangeEpoch" -> [variant |-> "ChangeEpoch", f0 |-> k.payload]
      [] k.tag = "AuthenticatorStateCreate" -> [variant |-> "AuthenticatorStateCreate"]
      [] k.tag = "AuthenticatorStateExpire" -> [variant |-> "AuthenticatorStateExpire", f0 |-> k.payload]
      [] k.tag = "RandomnessStateCreate" -> [variant |-> "RandomnessStateCreate"]
      [] k.tag = "DenyListStateCreate" -> [variant |-> "DenyListStateCreate"]
      [] k.tag = "BridgeStateCreate" -> [variant |-> "BridgeStateCreate", chain_id |-> k.chain_id]
      [] k.tag = "BridgeCommitteeInit" -> 
            [variant |-> "BridgeCommitteeInit", bridge_object_version |-> k.bridge_object_version]

\* match readable { ReadableEndOfEpochTransactionKind::X => Self::X }
EndOfEpochFromReadable(r) ==
    CASE r.variant = "ChangeEpoch" -> [tag |-> "ChangeEpoch", payload |-> r.f0]
      [] r.variant = "AuthenticatorStateCreate" -> [tag |-> "AuthenticatorStateCreate"]
      [] r.variant = "AuthenticatorStateExpire" -> [tag |-> "AuthenticatorStateExpire", payload |-> r.f0]
      [] r.variant = "RandomnessStateCreate" -> [tag |-> "RandomnessStateCreate"]
      [] r.variant = "DenyListStateCreate" -> [tag |-> "DenyListStateCreate"]
      [] r.variant = "BridgeStateCreate" -> [tag |-> "BridgeStateCreate", chain_id |-> r.chain_id]
      [] r.variant = "BridgeCommitteeInit" -> 
            [tag |-> "BridgeCommitteeInit", bridge_object_version |-> r.bridge_object_version]

\* match binary { BinaryEndOfEpochTransactionKind::X => Self::X }
EndOfEpochFromBinary(b) ==
    CASE b.variant = "ChangeEpoch" -> [tag |-> "ChangeEpoch", payload |-> b.f0]
      [] b.variant = "AuthenticatorStateCreate" -> [tag |-> "AuthenticatorStateCreate"]
      [] b.variant = "AuthenticatorStateExpire" -> [tag |-> "AuthenticatorStateExpire", payload |-> b.f0]
      [] b.variant = "RandomnessStateCreate" -> [tag |-> "RandomnessStateCreate"]
      [] b.variant = "DenyListStateCreate" -> [tag |-> "DenyListStateCreate"]
      [] b.variant = "BridgeStateCreate" -> [tag |-> "BridgeStateCreate", chain_id |-> b.chain_id]
      [] b.variant = "BridgeCommitteeInit" -> 
            [tag |-> "BridgeCommitteeInit", bridge_object_version |-> b.bridge_object_version]

BinaryEndOfEpochSerialize(b) ==
    EncVariant(BinaryEndOfEpochVariants, b.variant) \o
    (CASE b.variant \in EndOfEpochUnitTags -> <<>>
       [] b.variant = "BridgeStateCreate" -> EncOpaque(b.chain_id)
       [] b.variant = "BridgeCommitteeInit" -> EncU64(b.bridge_object_version)
       [] OTHER -> EncOpaque(b.f0))

BinaryEndOfEpochDeserialize(bs) ==
    Bind(DecVariant(BinaryEndOfEpochVariants, "BinaryEndOfEpochTransactionKind", bs),
         LAMBDA t :
         CASE t.val \in EndOfEpochUnitTags -> Ok([variant |-> t.val], t.rest)
           [] t.val = "BridgeCommitteeInit" ->
                 Bind(DecU64(t.rest), LAMBDA v :
                      Ok([variant |-> t.val, bridge_object_version |-> v.val], v.rest))
           [] t.val = "BridgeStateCreate" ->
                 Bind(DecOpaque(t.rest), LAMBDA d :
                      Ok([variant |-> t.val, chain_id |-> d.val], d.rest))
           [] OTHER ->
                 Bind(DecOpaque(t.rest), LAMBDA p :
                      Ok([variant |-> t.val, f0 |-> p.val], p.rest)))

ReadableEndOfEpochSerialize(r) ==
    ("kind" :> JName(ReadableEndOfEpochNames[r.variant])) @@
    (CASE r.variant \in EndOfEpochUnitTags -> [k \in {} |-> 0]
       [] r.variant = "BridgeStateCreate" -> "chain_id" :> JOpaque(r.chain_id)
       [] r.variant = "BridgeCommitteeInit" ->
             "bridge_object_version" :> ReadableDisplaySerialize(r.bridge_object_version)
       [] OTHER -> PayloadFields(r.f0))

ReadableEndOfEpochDeserialize(f) ==
    Bind(VariantNamed(ReadableEndOfEpochNames, "ReadableEndOfEpochTransactionKind",
                      f, "kind"),
         LAMBDA t :
         CASE t.val \in EndOfEpochUnitTags -> Ok([variant |-> t.val], <<>>)
           [] t.val = "BridgeCommitteeInit" ->
                 Bind(ReadableDisplayDeserialize(f, "bridge_object_version"), LAMBDA v :
                      Ok([variant |-> t.val, bridge_object_version |-> v.val], <<>>))
           [] t.val = "BridgeStateCreate" ->
                 Bind(TextOpaque(f, "chain_id"), LAMBDA d :
                      Ok([variant |-> t.val, chain_id |-> d.val], <<>>))
           [] OTHER ->
                 Bind(TextOpaque(f, "payload"), LAMBDA p : Ok([variant |-> t.val, f0 |-> p.val], <<>>)))

\* impl Serialize for EndOfEpochTransactionKind
EndOfEpochSerialize(k, human) ==
    IF human THEN ReadableEndOfEpochSerialize(EndOfEpochToReadable(k))
    ELSE BinaryEndOfEpochSerialize(EndOfEpochToBinary(k))

\* impl Deserialize for EndOfEpochTransactionKind
EndOfEpochDeserialize(w, human) ==
    IF human
    THEN Bind(ReadableEndOfEpochDeserialize(w), LAMBDA r :
              Ok(EndOfEpochFromReadable(r.val), r.rest))
    ELSE Bind(BinaryEndOfEpochDeserialize(w), LAMBDA b :
              Ok(EndOfEpochFromBinary(b.val), b.rest))

\* Vec<EndOfEpochTransactionKind>, Binary: element count, then the elements.
RECURSIVE DecEndOfEpochElements(_, _)
DecEndOfEpochElements(bs, n) ==
    IF n = 0 THEN Ok(<<>>, bs)
    ELSE Bind(EndOfEpochDeserialize(bs, FALSE), LAMBDA k :
         Bind(DecEndOfEpochElements(k.rest, n - 1), LAMBDA more :
              Ok(<<k.val>> \o more.val, more.rest)))

\* The elements' results in order: the first error, or all the values.
Collected(rs) ==
    IF \E i \in DOMAIN rs : ~rs[i].ok
    THEN rs[CHOOSE i \in DOMAIN rs : ~rs[i].ok /\ \A k \in 1..(i - 1) : rs[k].ok]
    ELSE Ok([i \in DOMAIN rs |-> rs[i].val], <<>>)

\* Vec<EndOfEpochTransactionKind>, Textual: a list of objects.
\* Variant: the elements are written last to first.
EndOfEpochItemsReversed(ks) ==
    JList([i \in DOMAIN ks |-> JObj(EndOfEpochSerialize(ks[Len(ks) + 1 - i], TRUE))])

EndOfEpochItems(ks) == JList([i \in DOMAIN ks |-> JObj(EndOfEpochSerialize(ks[i], TRUE))])

ItemsEndOfEpoch(f, name) ==
    Bind(Field(f, name, "list"), LAMBDA l :
         Collected([i \in DOMAIN l.val.items |->
                      IF l.val.items[i].j # "obj" THEN Err(SerdeError("invalid_type", name))
                      ELSE EndOfEpochDeserialize(l.val.items[i].fields, TRUE)]))

\* ------------------------------------------------------------- TransactionKind
TransactionKindPayloadTags ==
    {"ProgrammableTransaction", "ChangeEpoch", "Genesis", "ConsensusCommitPrologue",
     "AuthenticatorStateUpdate", "RandomnessStateUpdate", "ConsensusCommitPrologueV2"}

EndOfEpoch(commands) == [tag |-> "EndOfEpoch", commands |-> commands]

\* The elements the command lists are built from: a unit variant, a payload
\* variant and the 64-bit variant.
EndOfEpochListElements ==
    {k \in EndOfEpochTransactionKinds :
        k.tag \in {"AuthenticatorStateCreate", "ChangeEpoch", "BridgeCommitteeInit"}}

TransactionKinds ==
    {[tag |-> t, payload |-> p] : t \in TransactionKindPayloadTags, p \in Opaque}
    \cup {EndOfEpoch(l) : l \in SeqsUpTo(EndOfEpochListElements, MaxLen)}

\* Variant: ChangeEpoch and Genesis declared in the other order.
BinaryTransactionKindVariantsReordered ==
    <<"ProgrammableTransaction", "Genesis", "ChangeEpoch", "ConsensusCommitPrologue",
      "AuthenticatorStateUpdate", "EndOfEpoch", "RandomnessStateUpdate",
      "ConsensusCommitPrologueV2">>

\* enum BinaryTransactionKindRef / BinaryTransactionKind, in declaration order.
BinaryTransactionKindVariants ==
    <<"ProgrammableTransaction", "ChangeEpoch", "Genesis", "ConsensusCommitPrologue",
      "AuthenticatorStateUpdate", "EndOfEpoch", "RandomnessStateUpdate",
      "ConsensusCommitPrologueV2">>

\* enum ReadableTransactionKindRef / ReadableTransactionKind.
ReadableTransactionKindNames ==
    [ProgrammableTransaction |-> "programmable_transaction", ChangeEpoch |-> "change_epoch",
     Genesis |-> "genesis", ConsensusCommitPrologue |-> "consensus_commit_prologue",
     AuthenticatorStateUpdate |-> "authenticator_state_update",
     EndOfEpoch |-> "end_of_epoch", RandomnessStateUpdate |-> "randomness_state_update",
     ConsensusCommitPrologueV2 |-> "consensus_commit_prologue_v2"]

\* match self { TransactionKind::X(k) => ReadableTransactionKindRef::X(k) }
TransactionKindToReadable(k) ==
    CASE k.tag = "ProgrammableTransaction" -> [variant |-> "ProgrammableTransaction", f0 |-> k.payload]
      [] k.tag = "ChangeEpoch" -> [variant |-> "ChangeEpoch", f0 |-> k.payload]
      [] k.tag = "Genesis" -> [variant |-> "Genesis", f0 |-> k.payload]
      [] k.tag = "ConsensusCommitPrologue" -> [variant |-> "ConsensusCommitPrologue", f0 |-> k.payload]
      [] k.tag = "AuthenticatorStateUpdate" -> [variant |-> "AuthenticatorStateUpdate", f0 |-> k.payload]
      [] k.tag = "EndOfEpoch" -> [variant |-> "EndOfEpoch", commands |-> k.commands]
      [] k.tag = "RandomnessStateUpdate" -> [variant |-> "RandomnessStateUpdate", f0 |-> k.payload]
      [] k.tag = "ConsensusCommitPrologueV2" -> [variant |-> "ConsensusCommitPrologueV2", f0 |-> k.payload]

\* match self { TransactionKind::X(k) => BinaryTransactionKindRef::X(k) }
TransactionKindToBinary(k) ==
    CASE k.tag = "ProgrammableTransaction" -> [variant |-> "ProgrammableTransaction", f0 |-> k.payload]
      [] k.tag = "ChangeEpoch" -> [variant |-> "ChangeEpoch", f0 |-> k.payload]
      [] k.tag = "Genesis" -> [variant |-> "Genesis", f0 |-> k.payload]
      [] k.tag = "ConsensusCommitPrologue" -> [variant |-> "ConsensusCommitPrologue", f0 |-> k.payload]
      [] k.tag = "AuthenticatorStateUpdate" -> [variant |-> "AuthenticatorStateUpdate", f0 |-> k.payload]
      [] k.tag = "EndOfEpoch" -> [variant |-> "EndOfEpoch", f0 |-> k.commands]
      [] k.tag = "RandomnessStateUpdate" -> [variant |-> "RandomnessStateUpdate", f0 |-> k.payload]
      [] k.tag = "ConsensusCommitPrologueV2" -> [variant |-> "ConsensusCommitPrologueV2", f0 |-> k.payload]

\* match readable { ReadableTransactionKind::X(k) => TransactionKind::X(k) }
\* Variant: the two consensus-commit-prologue variants are taken for each other.
TransactionKindFromReadablePrologueSwapped(r) ==
    CASE r.variant \in {"ProgrammableTransaction", "ChangeEpoch", "Genesis",
                        "AuthenticatorStateUpdate", "RandomnessStateUpdate"} ->
            [tag |-> r.variant, payload |-> r.f0]
      [] r.variant = "ConsensusCommitPrologue" ->
            [tag |-> "ConsensusCommitPrologueV2", payload |-> r.f0]
      [] r.variant = "EndOfEpoch" -> [tag |-> "EndOfEpoch", commands |-> r.commands]
      [] r.variant = "ConsensusCommitPrologueV2" ->
            [tag |-> "ConsensusCommitPrologue", payload |-> r.f0]

TransactionKindFromReadable(r) ==
    CASE r.variant = "ProgrammableTransaction" -> [tag |-> "ProgrammableTransaction", payload |-> r.f0]
      [] r.variant = "ChangeEpoch" -> [tag |-> "ChangeEpoch", payload |-> r.f0]
      [] r.variant = "Genesis" -> [tag |-> "Genesis", payload |-> r.f0]
      [] r.variant = "ConsensusCommitPrologue" -> [tag |-> "ConsensusCommitPrologue", payload |-> r.f0]
      [] r.variant = "AuthenticatorStateUpdate" -> [tag |-> "AuthenticatorStateUpdate", payload |-> r.f0]
      [] r.variant = "EndOfEpoch" -> [tag |-> "EndOfEpoch", commands |-> r.commands]
      [] r.variant = "RandomnessStateUpdate" -> [tag |-> "RandomnessStateUpdate", payload |-> r.f0]
      [] r.variant = "ConsensusCommitPrologueV2" -> [tag |-> "ConsensusCommitPrologueV2", payload |-> r.f0]

\* match binary { BinaryTransactionKind::X(k) => TransactionKind::X(k) }
TransactionKindFromBinary(b) ==
    CASE b.variant = "ProgrammableTransaction" -> [tag |-> "ProgrammableTransaction", payload |-> b.f0]
      [] b.variant = "ChangeEpoch" -> [tag |-> "ChangeEpoch", payload |-> b.f0]
      [] b.variant = "Genesis" -> [tag |-> "Genesis", payload |-> b.f0]
      [] b.variant = "ConsensusCommitPrologue" -> [tag |-> "ConsensusCommitPrologue", payload |-> b.f0]
      [] b.variant = "AuthenticatorStateUpdate" -> [tag |-> "AuthenticatorStateUpdate", payload |-> b.f0]
      [] b.variant = "EndOfEpoch" -> [tag |-> "EndOfEpoch", commands |-> b.f0]
      [] b.variant = "RandomnessStateUpdate" -> [tag |-> "RandomnessStateUpdate", payload |-> b.f0]
      [] b.variant = "ConsensusCommitPrologueV2" -> [tag |-> "ConsensusCommitPrologueV2", payload |-> b.f0]

BinaryTransactionKindSerialize(b) ==
    IF b.variant = "EndOfEpoch"
    THEN EncVariant(BinaryTransactionKindVariants, b.variant) \o EncUleb(Len(b.f0))
         \o Concat([i \in DOMAIN b.f0 |-> EndOfEpochSerialize(b.f0[i], FALSE)])
    ELSE NewtypeBinarySerialize(BinaryTransactionKindVariants, b)

BinaryTransactionKindDeserialize(bs) ==
    Bind(DecVariant(BinaryTransactionKindVariants, "BinaryTransactionKind", bs), LAMBDA t :
         IF t.val = "EndOfEpoch"
         THEN Bind(DecUleb(t.rest), LAMBDA n :
              Bind(DecEndOfEpochElements(n.rest, n.val), LAMBDA l :
                   Ok([variant |-> t.val, f0 |-> l.val], l.rest)))
         ELSE Bind(DecOpaque(t.rest), LAMBDA p :
                   Ok([variant |-> t.val, f0 |-> p.val], p.rest)))

ReadableTransactionKindSerialize(r) ==
    IF r.variant = "EndOfEpoch"
    THEN ("kind" :> JName(ReadableTransactionKindNames[r.variant])) @@
         ("commands" :> EndOfEpochItems(r.commands))
    ELSE NewtypeReadableSerialize(ReadableTransactionKindNames, "kind", r)

ReadableTransactionKindDeserialize(f) ==
    Bind(VariantNamed(ReadableTransactionKindNames, "TransactionKind", f, "kind"),
         LAMBDA t :
         IF t.val = "EndOfEpoch"
         THEN Bind(ItemsEndOfEpoch(f, "commands"), LAMBDA l :
                   Ok([variant |-> t.val, commands |-> l.val], <<>>))
         ELSE Bind(TextOpaque(f, "payload"), LAMBDA p : Ok([variant |-> t.val, f0 |-> p.val], <<>>)))

\* impl Serialize for TransactionKind
TransactionKindSerialize(k, human) ==
    IF human THEN ReadableTransactionKindSerialize(TransactionKindToReadable(k))
    ELSE BinaryTransactionKindSerialize(TransactionKindToBinary(k))

\* impl Deserialize for TransactionKind
TransactionKindDeserialize(w, human) ==
    IF human
    THEN Bind(ReadableTransactionKindDeserialize(w), LAMBDA r :
              Ok(TransactionKindFromReadable(r.val), r.rest))
    ELSE Bind(BinaryTransactionKindDeserialize(w), LAMBDA b :
              Ok(TransactionKindFromBinary(b.val), b.rest))

\* ----------------------------------------------------------------- Transaction
Transaction(kind, sender, gas, expiration) ==
    [kind |-> kind, sender |-> sender, gas_payment |-> gas, expiration |-> expiration]

\* The kinds transactions are built from: in an EndOfEpoch list, the unit
\* variant and the 64-bit variant of version zero.
TransactionKindSamples ==
    {k \in TransactionKinds :
        k.tag = "EndOfEpoch"
            => \A i \in DOMAIN k.commands :
                  /\ k.commands[i].tag # "ChangeEpoch"
                  /\ k.commands[i].tag = "BridgeCommitteeInit"
                        => k.commands[i].bridge_object_version = <<0, 0, 0, 0>>}

Transactions ==
    {Transaction(k, s, g, e) :
        k \in TransactionKindSamples, s \in Opaque, g \in Opaque, e \in Opaque}

\* enum BinaryTransactionDataRef / BinaryTransactionData, in declaration order.
BinaryTransactionDataVariants == <<"V1">>

\* enum ReadableTransactionDataRef / ReadableTransactionData: #[serde(rename = "1")]
ReadableTransactionDataNames == [V1 |-> "1"]

\* Entries written to one map in order: a later entry replaces an earlier one.
Merged(earlier, later) == later @@ earlier

\* Variant: gas_payment declared ahead of sender.
BinaryTransactionSerializeGasFirst(tx) ==
    TransactionKindSerialize(tx.kind, FALSE) \o EncOpaque(tx.gas_payment)
    \o EncOpaque(tx.sender) \o EncOpaque(tx.expiration)

\* struct BinaryTransactionRef / BinaryTransaction: the fields in declaration order.
BinaryTransactionSerialize(tx) ==
    TransactionKindSerialize(tx.kind, FALSE) \o EncOpaque(tx.sender)
    \o EncOpaque(tx.gas_payment) \o EncOpaque(tx.expiration)

BinaryTransactionDeserialize(bs) ==
    Bind(TransactionKindDeserialize(bs, FALSE), LAMBDA k :
    Bind(DecOpaque(k.rest), LAMBDA s :
    Bind(DecOpaque(s.rest), LAMBDA g :
    Bind(DecOpaque(g.rest), LAMBDA e :
         Ok(Transaction(k.val, s.val, g.val, e.val), e.rest)))))

\* Variant: kind without #[serde(flatten)], nested under its own field.
ReadableTransactionSerializeNested(tx) ==
    Merged(Merged(Merged("kind" :> JObj(TransactionKindSerialize(tx.kind, TRUE)),
                         "sender" :> JOpaque(tx.sender)),
                  "gas_payment" :> JOpaque(tx.gas_payment)),
           "expiration" :> JOpaque(tx.expiration))

\* struct ReadableTransactionRef / ReadableTransaction: kind is #[serde(flatten)].
ReadableTransactionSerialize(tx) ==
    Merged(Merged(Merged(TransactionKindSerialize(tx.kind, TRUE),
                         "sender" :> JOpaque(tx.sender)),
                  "gas_payment" :> JOpaque(tx.gas_payment)),
           "expiration" :> JOpaque(tx.expiration))

ReadableTransactionDeserialize(f) ==
    Bind(TextOpaque(f, "sender"), LAMBDA s :
    Bind(TextOpaque(f, "gas_payment"), LAMBDA g :
    Bind(TextOpaque(f, "expiration"), LAMBDA e :
    Bind(TransactionKindDeserialize(Without(f, {"sender", "gas_payment", "expiration"}),
                                    TRUE),
         LAMBDA k : Ok(Transaction(k.val, s.val, g.val, e.val), <<>>)))))

\* impl Serialize for Transaction
TransactionSerialize(tx, human) ==
    IF human
    THEN Merged("version" :> JName(ReadableTransactionDataNames["V1"]),
                ReadableTransactionSerialize(tx))
    ELSE EncVariant(BinaryTransactionDataVariants, "V1") \o BinaryTransactionSerialize(tx)

\* Variant: the version discriminant is read and not looked at.
TransactionDeserializeAnyVersion(w, human) ==
    IF human
    THEN ReadableTransactionDeserialize(Without(w, {"version"}))
    ELSE Bind(DecUleb(w), LAMBDA v : BinaryTransactionDeserialize(v.rest))

\* impl Deserialize for Transaction
TransactionDeserialize(w, human) ==
    IF human
    THEN Bind(VariantNamed(ReadableTransactionDataNames, "Transaction", w, "version"),
              LAMBDA v : ReadableTransactionDeserialize(Without(w, {"version"})))
    ELSE Bind(DecVariant(BinaryTransactionDataVariants, "BinaryTransactionData", w),
              LAMBDA v : BinaryTransactionDeserialize(v.rest))

\* ----------------------------------------------------------- SignedTransaction
SignedTransaction(tx, signatures) == [transaction |-> tx, signatures |-> signatures]

SignedTransactions ==
    {SignedTransaction(Transaction([tag |-> "ProgrammableTransaction", payload |-> p],
                                   s, 0, 0), sigs) :
        p \in Opaque, s \in Opaque, sigs \in SeqsUpTo(Opaque, MaxLen)}

\* Vec<UserSignature>, Binary: element count, then the signatures.
SignaturesBinary(sigs) ==
    EncUleb(Len(sigs)) \o Concat([i \in DOMAIN sigs |-> EncOpaque(sigs[i])])

\* Vec<UserSignature>, Textual: a list.
SignaturesText(sigs) == JList([i \in DOMAIN sigs |-> JOpaque(sigs[i])])

TextSignatures(f) ==
    Bind(Field(f, "signatures", "list"), LAMBDA l :
         IF \E i \in DOMAIN l.val.items : l.val.items[i].j # "opaque"
         THEN Err(SerdeError("invalid_type", "signatures"))
         ELSE Ok([i \in DOMAIN l.val.items |-> l.val.items[i].opaque], <<>>))

\* struct ReadableSignedTransactionRef: transaction is #[serde(flatten)].
ReadableSignedTransactionSerialize(st) ==
    Merged(TransactionSerialize(st.transaction, TRUE),
           "signatures" :> SignaturesText(st.signatures))

\* struct ReadableSignedTransaction
ReadableSignedTransactionDeserialize(f) ==
    Bind(TextSignatures(f), LAMBDA sigs :
    Bind(TransactionDeserialize(Without(f, {"signatures"}), TRUE), LAMBDA tx :
         Ok(SignedTransaction(tx.val, sigs.val), <<>>)))

\* Variant: the binary branch emits the intent-message envelope.
SignedTransactionSerializeEnveloped(st, human) ==
    IF human THEN ReadableSignedTransactionSerialize(st)
    ELSE EncUleb(1) \o EncU8(0) \o EncU8(0) \o EncU8(0)
         \o TransactionSerialize(st.transaction, FALSE)
         \o SignaturesBinary(st.signatures)

\* impl Serialize for SignedTransaction
SignedTransactionSerialize(st, human) ==
    IF human THEN ReadableSignedTransactionSerialize(st)
    ELSE TransactionSerialize(st.transaction, FALSE) \o SignaturesBinary(st.signatures)

\* impl Deserialize for SignedTransaction
SignedTransactionDeserialize(w, human) ==
    IF human THEN ReadableSignedTransactionDeserialize(w)
    ELSE Bind(TransactionDeserialize(w, FALSE), LAMBDA tx :
         Bind(DecBytes(tx.rest), LAMBDA sigs :
              Ok(SignedTransaction(tx.val, sigs.val), sigs.rest)))

\* ------------------------------------------------------------- signing envelope
ErrInvalidIntent(scope, version, app) ==
    [kind |-> "invalid_intent", context |-> <<scope, version, app>>]

\* "expected a sequence with length 1"
ErrMalformedEnvelope == [kind |-> "malformed_envelope"]

\* impl SerializeAs<Transaction> for IntentMessageWrappedTransaction
IntentMessageSerializeAs(tx) ==
    EncU8(0) \o EncU8(0) \o EncU8(0) \o TransactionSerialize(tx, FALSE)

\* Variant: only the scope is compared.
IntentMessageDeserializeAsScopeOnly(bs) ==
    Bind(DecU8(bs), LAMBDA scope :
    Bind(DecU8(scope.rest), LAMBDA version :
    Bind(DecU8(version.rest), LAMBDA app :
    Bind(TransactionDeserialize(app.rest, FALSE), LAMBDA tx :
         IF scope.val = 0 THEN tx
         ELSE Err(ErrInvalidIntent(scope.val, version.val, app.val))))))

\* impl DeserializeAs<Transaction> for IntentMessageWrappedTransaction
IntentMessageDeserializeAs(bs) ==
    Bind(DecU8(bs), LAMBDA scope :
    Bind(DecU8(scope.rest), LAMBDA version :
    Bind(DecU8(version.rest), LAMBDA app :
    Bind(TransactionDeserialize(app.rest, FALSE), LAMBDA tx :
         IF <<scope.val, version.val, app.val>> = <<0, 0, 0>> THEN tx
         ELSE Err(ErrInvalidIntent(scope.val, version.val, app.val))))))

\* Variant: the transaction field without its serde(with = ..) wrapper.
BinaryWithIntentMessageSerializeUnwrapped(st) ==
    TransactionSerialize(st.transaction, FALSE) \o SignaturesBinary(st.signatures)

\* struct BinarySignedTransactionWithIntentMessageRef
BinaryWithIntentMessageSerialize(st) ==
    IntentMessageSerializeAs(st.transaction) \o SignaturesBinary(st.signatures)

\* struct BinarySignedTransactionWithIntentMessage
BinaryWithIntentMessageDeserialize(bs) ==
    Bind(IntentMessageDeserializeAs(bs), LAMBDA tx :
    Bind(DecBytes(tx.rest), LAMBDA sigs :
         Ok(SignedTransaction(tx.val, sigs.val), sigs.rest)))

\* serialize_seq(Some(len)): a length-prefixed format writes the declared
\* length; a format that delimits its sequences otherwise writes nothing here.
SerializeSeqHeader(framing, len) == IF framing = "sized" THEN EncUleb(len) ELSE <<>>

\* Variant: the textual branch keeps the transaction under a field of its own.
WithIntentMessageSerializeAsNested(st, human, framing) ==
    IF human
    THEN Merged("transaction" :> JObj(TransactionSerialize(st.transaction, TRUE)),
                "signatures" :> SignaturesText(st.signatures))
    ELSE SerializeSeqHeader(framing, 1) \o BinaryWithIntentMessageSerialize(st)

\* impl SerializeAs<SignedTransaction> for SignedTransactionWithIntentMessage
WithIntentMessageSerializeAs(st, human, framing) ==
    IF human THEN ReadableSignedTransactionSerialize(st)
    ELSE SerializeSeqHeader(framing, 1) \o BinaryWithIntentMessageSerialize(st)

\* Variant: only an empty sequence is refused.
VisitSeqAtLeastOne(hint, bs) ==
    IF hint.some /\ hint.n < 1 THEN Err(ErrMalformedEnvelope)
    ELSE IF ~hint.some /\ bs = <<>> THEN Err(ErrMalformedEnvelope)
    ELSE BinaryWithIntentMessageDeserialize(bs)

\* Visitor V: visit_seq, given SeqAccess::size_hint() (the declared length, or
\* none) and the input.  next_element() yields nothing when no element is
\* left: never under a hint of 1, and at the end of input without a hint.
VisitSeq(hint, bs) ==
    IF hint.some /\ hint.n # 1 THEN Err(ErrMalformedEnvelope)
    ELSE IF ~hint.some /\ bs = <<>> THEN Err(ErrMalformedEnvelope)
    ELSE BinaryWithIntentMessageDeserialize(bs)

\* Variant: the binary branch reads a plain SignedTransaction.
WithIntentMessageDeserializeAsPlain(w, human, framing) ==
    IF human THEN ReadableSignedTransactionDeserialize(w)
    ELSE SignedTransactionDeserialize(w, FALSE)

\* impl DeserializeAs<SignedTransaction> for SignedTransactionWithIntentMessage
WithIntentMessageDeserializeAs(w, human, framing) ==
    IF human THEN ReadableSignedTransactionDeserialize(w)
    ELSE IF framing = "sized"
         THEN Bind(DecUleb(w), LAMBDA n : VisitSeq([some |-> TRUE, n |-> n.val], n.rest))
    ELSE VisitSeq([some |-> FALSE, n |-> 0], w)

\* -------------------------------------------------- ability field requirements
\* The abilities, and the ability an ability requires of a field's type.
AbilityRequires(a) == IF a = "Key" THEN "Store" ELSE a

\* Variant: the declared abilities themselves are required of the fields.
RequiredAbilitiesDeclared(sh) == sh.abilities

\* sh.abilities.into_iter().map(|a| a.requires()).fold(EMPTY, |acc, r| acc | r)
RequiredAbilities(sh) == {AbilityRequires(a) : a \in sh.abilities}

\* Variant: a type parameter has the abilities its declaration constrains it to.
TypeParameterAbilitiesDeclared(sh) ==
    [i \in DOMAIN sh.type_parameters |-> sh.type_parameters[i].constraints]

\* sh.type_parameters.iter().map(|_| AbilitySet::ALL).collect()
TypeParameterAbilities(sh) ==
    [i \in DOMAIN sh.type_parameters |-> {"Copy", "Drop", "Store", "Key"}]

\* module.abilities(ty, constraints): the abilities of a field's type.  A
\* type parameter has the abilities given for it, a datatype those its handle
\* declares; applying a datatype to the wrong number of arguments is an error.
Abilities(m, ty, constraints) ==
    CASE ty.sig = "U64" -> Ok({"Copy", "Drop", "Store"}, <<>>)
      [] ty.sig = "Signer" -> Ok({"Drop"}, <<>>)
      [] ty.sig = "TypeParameter" -> Ok(constraints[ty.idx + 1], <<>>)
      [] ty.sig = "Datatype" -> Ok(m.datatype_handles[ty.handle + 1].abilities, <<>>)
      [] ty.sig = "DatatypeInstantiation" ->
            IF Len(ty.type_arguments)
                  # Len(m.datatype_handles[ty.handle + 1].type_parameters)
            THEN Err([status |-> "VERIFIER_INVARIANT_VIOLATION", indices |-> <<>>])
            ELSE Ok(m.datatype_handles[ty.handle + 1].abilities, <<>>)

\* verification_error(status, kind, idx): an error located at one table index.
VerificationError(status, kind, idx) == [status |-> status, indices |-> <<<<kind, idx>>>>]

\* for field in fields { .. }, from the field at position fi, of the struct
\* definition at position idx.
RECURSIVE StructFields(_, _, _)
StructFields(m, idx, fi) ==
    IF fi > Len(m.struct_defs[idx].field_information.fields) THEN Ok(<<>>, <<>>)
    ELSE Bind(Abilities(m, m.struct_defs[idx].field_information.fields[fi].signature,
                        TypeParameterAbilities(
                            m.datatype_handles[m.struct_defs[idx].struct_handle + 1])),
              LAMBDA field_abilities :
              IF ~(RequiredAbilities(m.datatype_handles[m.struct_defs[idx].struct_handle + 1])
                      \subseteq field_abilities.val)
              THEN Err(VerificationError("FIELD_MISSING_TYPE_ABILITY", "StructDefinition",
                                         idx - 1))
              ELSE StructFields(m, idx, fi + 1))

\* for (idx, struct_def) in module.struct_defs().iter().enumerate() { .. }
RECURSIVE StructDefs(_, _)
StructDefs(m, idx) ==
    IF idx > Len(m.struct_defs) THEN Ok(<<>>, <<>>)
    ELSE IF m.struct_defs[idx].field_information.info = "Native" THEN StructDefs(m, idx + 1)
    ELSE Bind(StructFields(m, idx, 1), LAMBDA done : StructDefs(m, idx + 1))

\* for (fi, field) in variant.fields.iter().enumerate() { .. }
RECURSIVE VariantFields(_, _, _, _)
VariantFields(m, idx, i, fi) ==
    IF fi > Len(m.enum_defs[idx].variants[i].fields) THEN Ok(<<>>, <<>>)
    ELSE Bind(Abilities(m, m.enum_defs[idx].variants[i].fields[fi].signature,
                        TypeParameterAbilities(
                            m.datatype_handles[m.enum_defs[idx].enum_handle + 1])),
              LAMBDA field_abilities :
              IF ~(RequiredAbilities(m.datatype_handles[m.enum_defs[idx].enum_handle + 1])
                      \subseteq field_abilities.val)
              THEN Err([status |-> "FIELD_MISSING_TYPE_ABILITY",
                        indices |-> <<<<"EnumDefinition", idx - 1>>, <<"VariantTag", i - 1>>,
                                      <<"FieldDefinition", fi - 1>>>>])
              ELSE VariantFields(m, idx, i, fi + 1))

\* for (i, variant) in enum_def.variants.iter().enumerate() { .. }
RECURSIVE Variants(_, _, _)
Variants(m, idx, i) ==
    IF i > Len(m.enum_defs[idx].variants) THEN Ok(<<>>, <<>>)
    ELSE Bind(VariantFields(m, idx, i, 1), LAMBDA done : Variants(m, idx, i + 1))

\* for (idx, enum_def) in module.enum_defs().iter().enumerate() { .. }
RECURSIVE EnumDefs(_, _)
EnumDefs(m, idx) ==
    IF idx > Len(m.enum_defs) THEN Ok(<<>>, <<>>)
    ELSE Bind(Variants(m, idx, 1), LAMBDA done : EnumDefs(m, idx + 1))

\* Variant: the enum definitions are checked ahead of the struct definitions.
verify_module_implEnumsFirst(m) == Bind(EnumDefs(m, 1), LAMBDA done : StructDefs(m, 1))

\* fn verify_module_impl: the struct definitions, then the enum definitions.
verify_module_impl(m) == Bind(StructDefs(m, 1), LAMBDA done : EnumDefs(m, 1))

\* pub fn verify_module: the error, if any, is finished with the module's location.
verify_module(m) ==
    IF verify_module_impl(m).ok THEN Ok(<<>>, <<>>)
    ELSE Err([status |-> verify_module_impl(m).err.status,
              indices |-> verify_module_impl(m).err.indices,
              location |-> "Module"])

\* The datatype handles of the modules checked: one without abilities and type
\* parameters, and one with one type parameter that declares drop and key.
DatatypeHandles ==
    <<[abilities |-> {}, type_parameters |-> <<>>],
      [abilities |-> {"Drop", "Key"}, type_parameters |-> <<[constraints |-> {"Store"}]>>]>>

\* The field types: a primitive, signer, the first type parameter, the datatype
\* without abilities, and a datatype applied to no argument where it takes one.
FieldTypes ==
    {[sig |-> "U64"], [sig |-> "Signer"], [sig |-> "TypeParameter", idx |-> 0],
     [sig |-> "Datatype", handle |-> 0],
     [sig |-> "DatatypeInstantiation", handle |-> 1, type_arguments |-> <<>>]}

RECURSIVE Sum(_)
Sum(ns) == IF ns = <<>> THEN 0 ELSE Head(ns) + Sum(Tail(ns))

\* The number of definitions, variants and fields of a module.
Size(m) ==
    Len(m.struct_defs) + Len(m.enum_defs)
    + Sum([s \in DOMAIN m.struct_defs |->
              IF m.struct_defs[s].field_information.info = "Native" THEN 0
              ELSE Len(m.struct_defs[s].field_information.fields)])
    + Sum([e \in DOMAIN m.enum_defs |->
              Len(m.enum_defs[e].variants)
              + Sum([v \in DOMAIN m.enum_defs[e].variants |->
                        Len(m.enum_defs[e].variants[v].fields)])])

\* ------------------------------------------------------------- the codec calls
VARIABLES
    entity,     \* the type whose encode / decode entry point is called
    mode,       \* "Binary" or "Textual": the serializer's is_human_readable()
    framing,    \* whether the binary format declares sequence lengths
    value,      \* the value handed to encode
    wire,       \* the encoded form: bytes (Binary) or named fields (Textual)
    tampered,   \* whether the wire form was altered after encoding
    result,     \* what decode returned
    rewire,     \* the encoding of the decoded value
    cross,      \* the decoded value taken through the other mode and back
    pc,
    module,     \* the compiled module handed to verify_module
    verdict     \* what verify_module returned

vars == <<entity, mode, framing, value, wire, tampered, result, rewire, cross, pc,
          module, verdict>>

Envelope == "SignedTransactionWithIntentMessage"

Entities ==
    {"Argument", "InputArgument", "Command", "EndOfEpochTransactionKind",
     "TransactionKind", "Transaction", "SignedTransaction", Envelope}

ValuesOf(e) ==
    CASE e = "Argument" -> Arguments
      [] e = "InputArgument" -> InputArguments
      [] e = "Command" -> Commands
      [] e = "EndOfEpochTransactionKind" -> EndOfEpochTransactionKinds
      [] e = "TransactionKind" -> TransactionKinds
      [] e = "Transaction" -> Transactions
      [] e = "SignedTransaction" -> SignedTransactions
      [] e = Envelope -> SignedTransactions

\* encode(mode, v) at the entity's entry point.
Encode(e, v, human, fr) ==
    CASE e = "Argument" -> ArgumentSerialize(v, human)
      [] e = "InputArgument" -> InputArgumentSerialize(v, human)
      [] e = "Command" -> CommandSerialize(v, human)
      [] e = "EndOfEpochTransactionKind" -> EndOfEpochSerialize(v, human)
      [] e = "TransactionKind" -> TransactionKindSerialize(v, human)
      [] e = "Transaction" -> TransactionSerialize(v, human)
      [] e = "SignedTransaction" -> SignedTransactionSerialize(v, human)
      [] e = Envelope -> WithIntentMessageSerializeAs(v, human, fr)

\* Variant: input left over after the value is ignored.
DecodeIgnoringRest(e, w, human, fr, strict) ==
    Bind(CASE e = "Argument" -> ArgumentDeserialize(w, human)
           [] e = "InputArgument" -> InputArgumentDeserialize(w, human)
           [] e = "Command" -> CommandDeserialize(w, human)
           [] e = "EndOfEpochTransactionKind" -> EndOfEpochDeserialize(w, human)
           [] e = "TransactionKind" -> TransactionKindDeserialize(w, human)
           [] e = "Transaction" -> TransactionDeserialize(w, human)
           [] e = "SignedTransaction" -> SignedTransactionDeserialize(w, human)
           [] e = Envelope -> WithIntentMessageDeserializeAs(w, human, fr),
         LAMBDA r : Ok(r.val, <<>>))

\* decode(mode, w) at the entity's entry point.  A top-level binary decode
\* fails when input is left over; where the format does not declare sequence
\* lengths, what it does with elements the visitor left unread is its own
\* choice (strict: reject them).
Decode(e, w, human, fr, strict) ==
    Bind(CASE e = "Argument" -> ArgumentDeserialize(w, human)
           [] e = "InputArgument" -> InputArgumentDeserialize(w, human)
           [] e = "Command" -> CommandDeserialize(w, human)
           [] e = "EndOfEpochTransactionKind" -> EndOfEpochDeserialize(w, human)
           [] e = "TransactionKind" -> TransactionKindDeserialize(w, human)
           [] e = "Transaction" -> TransactionDeserialize(w, human)
           [] e = "SignedTransaction" -> SignedTransactionDeserialize(w, human)
           [] e = Envelope -> WithIntentMessageDeserializeAs(w, human, fr),
         LAMBDA r : IF r.rest # <<>> /\ strict THEN Err(SerdeError("trailing_input", "input")) ELSE Ok(r.val, <<>>))

\* Bytes an altered wire form may carry in place of the original ones.
TamperBytes == {0, 1, 2, 9, 128, 255}

\* A module without definitions.
NoModule == [datatype_handles |-> DatatypeHandles, struct_defs |-> <<>>, enum_defs |-> <<>>]

Init ==
    /\ entity \in Entities
    /\ mode \in {"Binary", "Textual"}
    /\ framing \in (IF entity = Envelope /\ mode = "Binary"
                    THEN {"sized", "unsized"} ELSE {"sized"})
    /\ value \in ValuesOf(entity)
    /\ wire = <<>>
    /\ tampered = FALSE
    /\ result = Err(SerdeError("none", "not yet decoded"))
    /\ rewire = <<>>
    /\ cross = Err(SerdeError("none", "not yet decoded"))
    /\ pc = "start"
    /\ module = NoModule
    /\ verdict = Err(SerdeError("none", "not yet verified"))

\* The caller encodes the value.
Serialize ==
    /\ pc = "start"
    /\ wire' = Encode(entity, value, mode = "Textual", framing)
    /\ pc' = "encoded"
    /\ UNCHANGED <<module, verdict>>
    /\ UNCHANGED <<entity, mode, framing, value, tampered, result, rewire, cross>>

\* One byte of the binary form is replaced.
ReplaceByte ==
    /\ pc = "encoded" /\ mode = "Binary" /\ ~tampered
    /\ \E i \in 1..Len(wire), b \in TamperBytes :
          /\ b # wire[i]
          /\ wire' = [wire EXCEPT ![i] = b]
    /\ tampered' = TRUE
    /\ UNCHANGED <<module, verdict>>
    /\ UNCHANGED <<entity, mode, framing, value, result, rewire, cross, pc>>

\* The binary form loses its last byte.
Truncate ==
    /\ pc = "encoded" /\ mode = "Binary" /\ ~tampered
    /\ wire # <<>>
    /\ wire' = SubSeq(wire, 1, Len(wire) - 1)
    /\ tampered' = TRUE
    /\ UNCHANGED <<module, verdict>>
    /\ UNCHANGED <<entity, mode, framing, value, result, rewire, cross, pc>>

\* The binary form gains a byte.
AppendByte ==
    /\ pc = "encoded" /\ mode = "Binary" /\ ~tampered
    /\ \E b \in TamperBytes : wire' = Append(wire, b)
    /\ tampered' = TRUE
    /\ UNCHANGED <<module, verdict>>
    /\ UNCHANGED <<entity, mode, framing, value, result, rewire, cross, pc>>

\* The envelope's outer sequence is rebuilt with k well-formed elements, k # 1.
Reframe ==
    /\ pc = "encoded" /\ mode = "Binary" /\ ~tampered
    /\ entity = Envelope
    /\ \E k \in (0..MaxLen) \ {1} :
          wire' = SerializeSeqHeader(framing, k)
                  \o Concat([i \in 1..k |-> BinaryWithIntentMessageSerialize(value)])
    /\ tampered' = TRUE
    /\ UNCHANGED <<module, verdict>>
    /\ UNCHANGED <<entity, mode, framing, value, result, rewire, cross, pc>>

\* Discriminant names an altered textual form may carry.
TamperNames == {"bogus", "gas_coin", "change_epoch", "2"}

\* A discriminant of the textual form names something else.
RenameDiscriminant ==
    /\ pc = "encoded" /\ mode = "Textual" /\ ~tampered
    /\ \E field \in DOMAIN wire \cap {"type", "kind", "command", "version"},
          name \in TamperNames :
          /\ wire[field] # JName(name)
          /\ wire' = [wire EXCEPT ![field] = JName(name)]
    /\ tampered' = TRUE
    /\ UNCHANGED <<module, verdict>>
    /\ UNCHANGED <<entity, mode, framing, value, result, rewire, cross, pc>>

\* The textual form loses one of its fields.
DropField ==
    /\ pc = "encoded" /\ mode = "Textual" /\ ~tampered
    /\ \E field \in DOMAIN wire : wire' = Without(wire, {field})
    /\ tampered' = TRUE
    /\ UNCHANGED <<module, verdict>>
    /\ UNCHANGED <<entity, mode, framing, value, result, rewire, cross, pc>>

\* The receiver decodes the wire form.
\* The texts a textual scalar is replaced with: not a number, negative, past
\* 2^64 - 1, a signed and a plain number, and broken and well-formed base64.
TamperTexts ==
    {<<>>, <<"-", "1">>, <<"1", "x">>, <<"+", "7">>, <<"7">>,
     <<"1", "8", "4", "4", "6", "7", "4", "4", "0", "7",
       "3", "7", "0", "9", "5", "5", "1", "6", "1", "6">>,
     <<"A", "Q", "=">>, <<"A", "Q", "=", "=">>, <<"!", "Q", "=", "=">>,
     <<"A", "R", "=", "=">>}

CorruptText ==
    /\ pc = "encoded" /\ mode = "Textual" /\ ~tampered
    /\ \E field \in DOMAIN wire, t \in TamperTexts :
          /\ wire[field].j = "text"
          /\ wire[field].chars # t
          /\ wire' = [wire EXCEPT ![field] = JText(t)]
    /\ tampered' = TRUE
    /\ UNCHANGED <<module, verdict>>
    /\ UNCHANGED <<entity, mode, framing, value, result, rewire, cross, pc>>

Deserialize ==
    /\ pc = "encoded"
    /\ \E strict \in (IF framing = "sized" THEN {TRUE} ELSE BOOLEAN) :
          result' = Decode(entity, wire, mode = "Textual", framing, strict)
    /\ pc' = "decoded"
    /\ UNCHANGED <<module, verdict>>
    /\ UNCHANGED <<entity, mode, framing, value, wire, tampered, rewire, cross>>

\* The receiver encodes the value it decoded.
Reserialize ==
    /\ pc = "decoded" /\ result.ok
    /\ rewire' = Encode(entity, result.val, mode = "Textual", framing)
    /\ pc' = "reencoded"
    /\ UNCHANGED <<module, verdict>>
    /\ UNCHANGED <<entity, mode, framing, value, wire, tampered, result, cross>>

\* The receiver encodes the decoded value in the other mode and decodes that.
Transcode ==
    /\ pc = "reencoded"
    /\ cross' = Decode(entity,
                       Encode(entity, result.val, mode # "Textual", framing),
                       mode # "Textual", framing, TRUE)
    /\ pc' = "transcoded"
    /\ UNCHANGED <<module, verdict>>
    /\ UNCHANGED <<entity, mode, framing, value, wire, tampered, result, rewire>>

Next ==
    \/ Serialize
    \/ ReplaceByte
    \/ Truncate
    \/ AppendByte
    \/ Reframe
    \/ RenameDiscriminant
    \/ DropField
    \/ CorruptText
    \/ Deserialize
    \/ Reserialize
    \/ Transcode

Spec == Init /\ [][Next]_vars

\* ------------------------------------------------------- the verifier's call
\* A module is put together definition by definition and handed to
\* verify_module once.
VerifierInit ==
    /\ entity = "CompiledModule" /\ mode = "Binary" /\ framing = "sized"
    /\ value = <<>> /\ wire = <<>> /\ tampered = FALSE
    /\ result = Err(SerdeError("none", "not yet decoded"))
    /\ rewire = <<>>
    /\ cross = Err(SerdeError("none", "not yet decoded"))
    /\ pc = "building"
    /\ module = NoModule
    /\ verdict = Err(SerdeError("none", "not yet verified"))

Codec == <<entity, mode, framing, value, wire, tampered, result, rewire, cross>>

AddDefinition ==
    /\ pc = "building" /\ Size(module) < MaxSize
    /\ \E h \in 0..(Len(DatatypeHandles) - 1) :
          \/ \E info \in {[info |-> "Native"], [info |-> "Declared", fields |-> <<>>]} :
                module' = [module EXCEPT !.struct_defs =
                              Append(@, [struct_handle |-> h, field_information |-> info])]
          \/ module' = [module EXCEPT !.enum_defs =
                           Append(@, [enum_handle |-> h, variants |-> <<>>])]
    /\ UNCHANGED <<Codec, pc, verdict>>

AddVariant ==
    /\ pc = "building" /\ Size(module) < MaxSize
    /\ module.enum_defs # <<>>
    /\ module' = [module EXCEPT !.enum_defs[Len(module.enum_defs)].variants =
                     Append(@, [fields |-> <<>>])]
    /\ UNCHANGED <<Codec, pc, verdict>>

\* A field of a type parameter is added only where the datatype has one.
AddField ==
    /\ pc = "building" /\ Size(module) < MaxSize
    /\ \E ty \in FieldTypes :
          \/ /\ module.struct_defs # <<>>
             /\ module.struct_defs[Len(module.struct_defs)].field_information.info = "Declared"
             /\ ty.sig = "TypeParameter" =>
                   ty.idx < Len(DatatypeHandles[
                       module.struct_defs[Len(module.struct_defs)].struct_handle + 1
                   ].type_parameters)
             /\ module' = [module EXCEPT
                   !.struct_defs[Len(module.struct_defs)].field_information.fields =
                       Append(@, [signature |-> ty])]
          \/ /\ module.enum_defs # <<>>
             /\ module.enum_defs[Len(module.enum_defs)].variants # <<>>
             /\ ty.sig = "TypeParameter" =>
                   ty.idx < Len(DatatypeHandles[
                       module.enum_defs[Len(module.enum_defs)].enum_handle + 1
                   ].type_parameters)
             /\ module' = [module EXCEPT
                   !.enum_defs[Len(module.enum_defs)].variants[
                       Len(module.enum_defs[Len(module.enum_defs)].variants)].fields =
                       Append(@, [signature |-> ty])]
    /\ UNCHANGED <<Codec, pc, verdict>>

VerifyModule ==
    /\ pc = "building"
    /\ verdict' = verify_module(module)
    /\ pc' = "verified"
    /\ UNCHANGED <<Codec, module>>

VerifierNext ==
    \/ AddDefinition
    \/ AddVariant
    \/ AddField
    \/ VerifyModule

VerifierSpec == VerifierInit /\ [][VerifierNext]_vars

\* ----------------------------------------------------------------- properties
CoreEntities ==
    {"Argument", "InputArgument", "Command", "EndOfEpochTransactionKind",
     "TransactionKind", "Transaction"}

Decoded == pc \in {"decoded", "reencoded", "transcoded"}

\* C1: in Binary mode, for each of Transaction, TransactionKind,
\* EndOfEpochTransactionKind, Command, Argument and InputArgument, decoding the
\* encoding of a value returns that value, with no input left over.
C1_BinaryRoundTrip ==
    (Decoded /\ mode = "Binary" /\ ~tampered /\ entity \in CoreEntities)
        => result = Ok(value, <<>>)

C1_Witness ==
    /\ pc = "decoded" /\ mode = "Binary" /\ ~tampered
    /\ entity = "Transaction"
    /\ value.kind.tag = "EndOfEpoch" /\ Len(value.kind.commands) = 2
    /\ result = Ok(value, <<>>)

\* C2: in Textual mode, decoding the encoding of a value returns that value, for
\* every entity type; the fields flattened into one container (version, kind
\* fields, sender, gas_payment, expiration, signatures) are all recovered.
C2_TextualRoundTrip ==
    (/\ Decoded /\ mode = "Textual" /\ ~tampered
     /\ entity \in CoreEntities \cup {"SignedTransaction"})
        => result = Ok(value, <<>>)

C2_Witness ==
    /\ pc = "decoded" /\ mode = "Textual" /\ ~tampered
    /\ entity = "SignedTransaction"
    /\ Len(value.signatures) = 2
    /\ {"version", "kind", "sender", "gas_payment", "expiration", "signatures"}
          \subseteq DOMAIN wire
    /\ result = Ok(value, <<>>)

\* C3: in Binary mode, whenever a byte sequence decodes successfully, encoding
\* the decoded value gives back exactly that byte sequence.
C3_BinaryCanonical ==
    (pc = "reencoded" /\ mode = "Binary" /\ framing = "sized") => rewire = wire

C3_Witness ==
    /\ pc = "reencoded" /\ mode = "Binary" /\ framing = "sized"
    /\ tampered /\ result.val # value
    /\ rewire = wire

\* The context bytes of an envelope's element, and the bytes that follow them.
ElementOffset == IF framing = "sized" THEN 1 ELSE 0

WireContext == SubSeq(wire, ElementOffset + 1, ElementOffset + 3)

AfterContext == SubSeq(wire, ElementOffset + 4, Len(wire))

EnvelopeFramed ==
    /\ entity = Envelope /\ mode = "Binary"
    /\ Len(wire) >= ElementOffset + 3
    /\ framing = "sized" => wire[1] = 1

\* C4: decoding a binary envelope whose context triple is not (0, 0, 0) never
\* returns a transaction; when the transaction bytes after the triple are
\* well-formed, the error is the invalid-intent error naming the triple.
C4_IntentRejection ==
    (Decoded /\ EnvelopeFramed /\ WireContext # <<0, 0, 0>>)
        => /\ ~result.ok
           /\ TransactionDeserialize(AfterContext, FALSE).ok
                 => result = Err(ErrInvalidIntent(WireContext[1], WireContext[2],
                                                  WireContext[3]))

C4_Witness ==
    /\ pc = "decoded" /\ EnvelopeFramed
    /\ WireContext = <<0, 0, 1>>
    /\ TransactionDeserialize(AfterContext, FALSE).ok
    /\ result = Err(ErrInvalidIntent(0, 0, 1))

SizedEnvelope == entity = Envelope /\ mode = "Binary" /\ framing = "sized"

\* C5: decoding a binary envelope whose outer sequence reports a length other
\* than 1 fails with the malformed-envelope error; with a reported length of 1
\* and one well-formed element and nothing else, decoding succeeds.
C5_ReportedLength ==
    (Decoded /\ SizedEnvelope /\ DecUleb(wire).ok)
        => /\ DecUleb(wire).val # 1 => result = Err(ErrMalformedEnvelope)
           /\ (/\ DecUleb(wire).val = 1
               /\ BinaryWithIntentMessageDeserialize(DecUleb(wire).rest).ok
               /\ BinaryWithIntentMessageDeserialize(DecUleb(wire).rest).rest = <<>>)
                 => result.ok

C5_Witness ==
    /\ pc = "decoded" /\ SizedEnvelope
    /\ wire = <<2>> \o Concat([i \in 1..2 |-> BinaryWithIntentMessageSerialize(value)])
    /\ result = Err(ErrMalformedEnvelope)

\* C6: where the outer sequence gives no length in advance, an envelope
\* holding no element, or two or more well-formed elements, fails to decode
\* with the malformed-envelope error.
C6_ObservedLength ==
    (/\ Decoded /\ entity = Envelope /\ mode = "Binary" /\ framing = "unsized"
     /\ \E k \in (0..MaxLen) \ {1} :
           wire = Concat([i \in 1..k |-> BinaryWithIntentMessageSerialize(value)]))
        => result = Err(ErrMalformedEnvelope)

\* C7: the binary envelope is a sequence of declared length 1 whose element is
\* the bytes 0, 0, 0 (one byte per context value), the transaction's binary
\* encoding, and then the signatures, counted and in their original order.
C7_PreImageLayout ==
    (pc = "encoded" /\ ~tampered /\ SizedEnvelope)
        => /\ Len(wire) = 4 + Len(TransactionSerialize(value.transaction, FALSE))
                            + 1 + Len(value.signatures)
           /\ SubSeq(wire, 1, 4) = <<1, 0, 0, 0>>
           /\ SubSeq(wire, 5, Len(wire) - 1 - Len(value.signatures))
                 = TransactionSerialize(value.transaction, FALSE)
           /\ wire[Len(wire) - Len(value.signatures)] = Len(value.signatures)
           /\ \A i \in DOMAIN value.signatures :
                 wire[Len(wire) - Len(value.signatures) + i] = value.signatures[i]

C7_Witness ==
    /\ pc = "encoded" /\ ~tampered /\ SizedEnvelope
    /\ Len(value.signatures) = 2
    /\ value.signatures[1] # value.signatures[2]
    /\ SubSeq(wire, 1, 4) = <<1, 0, 0, 0>>

\* C8: decoding the binary envelope of a signed transaction returns that
\* signed transaction: the same transaction and the same signatures.
C8_EnvelopeRoundTrip ==
    (Decoded /\ entity = Envelope /\ mode = "Binary" /\ ~tampered)
        => result = Ok(value, <<>>)

C8_Witness ==
    /\ pc = "decoded" /\ SizedEnvelope /\ ~tampered
    /\ Len(value.signatures) = 2
    /\ value.signatures[1] # value.signatures[2]
    /\ result = Ok(value, <<>>)

\* The envelope form: one element, the context (0, 0, 0), the transaction.
EnvelopedForm(st) ==
    <<1, 0, 0, 0>> \o TransactionSerialize(st.transaction, FALSE)
                   \o SignaturesBinary(st.signatures)

\* C9 as stated: in Binary mode both SignedTransaction's own encode entry point
\* and the envelope adapter emit the envelope form, with the same bytes.
C9_BothEntryPointsEnveloped ==
    (/\ pc = "encoded" /\ ~tampered /\ mode = "Binary" /\ framing = "sized"
     /\ entity \in {"SignedTransaction", Envelope})
        => wire = EnvelopedForm(value)

\* C9, amended: in Binary mode only the envelope adapter emits the envelope
\* form; SignedTransaction's own encode entry point emits the transaction's
\* binary encoding followed by the signatures, so the adapter's bytes are the
\* own entry point's bytes preceded by 1, 0, 0, 0.
C9_OnlyAdapterEnvelopes ==
    (pc = "encoded" /\ ~tampered /\ mode = "Binary" /\ framing = "sized")
        => /\ entity = Envelope
                 => /\ wire = EnvelopedForm(value)
                    /\ wire = <<1, 0, 0, 0>> \o SignedTransactionSerialize(value, FALSE)
           /\ entity = "SignedTransaction"
                 => /\ wire = TransactionSerialize(value.transaction, FALSE)
                                 \o SignaturesBinary(value.signatures)
                    /\ wire # EnvelopedForm(value)

C9_Witness ==
    /\ pc = "encoded" /\ ~tampered /\ mode = "Binary"
    /\ entity = "SignedTransaction"
    /\ Len(value.signatures) = 1
    /\ <<1, 0, 0, 0>> \o wire = EnvelopedForm(value)

\* C10: in Textual mode the envelope adapter emits what a plain
\* SignedTransaction emits: the transaction's named fields and "signatures" in
\* one container, no context triple and no enclosing sequence; decoding that
\* shape through the adapter returns the signed transaction.
C10_TextualNoEnvelope ==
    (entity = Envelope /\ mode = "Textual" /\ ~tampered /\ pc # "start")
        => /\ wire = SignedTransactionSerialize(value, TRUE)
           /\ DOMAIN wire
                 = DOMAIN TransactionSerialize(value.transaction, TRUE) \cup {"signatures"}
           /\ \A name \in DOMAIN TransactionSerialize(value.transaction, TRUE) :
                 wire[name] = TransactionSerialize(value.transaction, TRUE)[name]
           /\ wire["signatures"] = SignaturesText(value.signatures)
           /\ Decoded => result = Ok(value, <<>>)

C10_Witness ==
    /\ entity = Envelope /\ mode = "Textual" /\ ~tampered /\ pc = "decoded"
    /\ Len(value.signatures) = 2
    /\ wire = SignedTransactionSerialize(value, TRUE)
    /\ result = Ok(value, <<>>)

\* C11: whenever bytes decode in Binary mode to a value, encoding that value in
\* Textual mode and decoding the text gives the same value: the Textual and
\* Binary tables of every entity agree on each variant.
C11_CrossFormat ==
    (pc = "transcoded" /\ mode = "Binary" /\ entity \in CoreEntities)
        => cross = Ok(result.val, <<>>)

C11_Witness ==
    /\ pc = "transcoded" /\ mode = "Binary" /\ entity = "Transaction"
    /\ tampered /\ result.val # value
    /\ result.val.kind.tag = "ConsensusCommitPrologueV2"
    /\ cross = Ok(result.val, <<>>)

\* C12: in Textual mode GasCoin encodes to {"type": "gas_coin"}, Input(i) to
\* {"type": "input", "input": i}, Result(i) to {"type": "result", "result": i}
\* and NestedResult(i, j) to {"type": "nested_result", "result": i,
\* "subresult": j}, with no other field; decoding the shape returns the Argument.
C12_ArgumentTextualShape ==
    (entity = "Argument" /\ mode = "Textual" /\ ~tampered /\ pc # "start")
        => /\ value.tag = "GasCoin" => wire = ("type" :> JName("gas_coin"))
           /\ value.tag = "Input"
                 => wire = ("type" :> JName("input")) @@ ("input" :> JNum(value.input))
           /\ value.tag = "Result"
                 => wire = ("type" :> JName("result")) @@ ("result" :> JNum(value.result))
           /\ value.tag = "NestedResult"
                 => wire = ("type" :> JName("nested_result"))
                           @@ ("result" :> JNum(value.result))
                           @@ ("subresult" :> JNum(value.subresult))
           /\ Decoded => result = Ok(value, <<>>)

C12_Witness ==
    /\ entity = "Argument" /\ mode = "Textual" /\ ~tampered /\ pc = "decoded"
    /\ value.tag = "NestedResult" /\ value.result # value.subresult
    /\ wire["subresult"] = JNum(value.subresult)
    /\ result = Ok(value, <<>>)

\* C13: in Binary mode GasCoin encodes to the byte 0 alone, Input(i) to 1 and
\* then i as two little-endian bytes, Result(i) to 2 and then i likewise, and
\* NestedResult(i, j) to 3, then i, then j, two little-endian bytes each; the
\* bytes carry no field names.
C13_ArgumentBinaryLayout ==
    (entity = "Argument" /\ mode = "Binary" /\ ~tampered /\ pc # "start")
        => /\ value.tag = "GasCoin" => wire = <<0>>
           /\ value.tag = "Input"
                 => wire = <<1, value.input % 256, value.input \div 256>>
           /\ value.tag = "Result"
                 => wire = <<2, value.result % 256, value.result \div 256>>
           /\ value.tag = "NestedResult"
                 => wire = <<3, value.result % 256, value.result \div 256,
                             value.subresult % 256, value.subresult \div 256>>

C13_Witness ==
    /\ entity = "Argument" /\ mode = "Binary" /\ ~tampered /\ pc = "encoded"
    /\ value.tag = "NestedResult" /\ value.result = 258 /\ value.subresult = 0
    /\ wire = <<3, 2, 1, 0, 0>>

\* C14: in Binary mode Pure encodes as top-level variant 0 carrying the
\* length-prefixed bytes; ImmutableOrOwned, Shared and Receiving encode as
\* top-level variant 1 followed by the nested discriminant 0, 1, 2 and the
\* variant's fields; decoding maps each (top-level, nested) pair back to the
\* variant that produces it and to no other.
C14_InputArgumentBinaryMapping ==
    (entity = "InputArgument" /\ mode = "Binary" /\ pc # "start")
        => /\ ~tampered =>
                 /\ value.tag = "Pure"
                       => wire = <<0, Len(value.value)>> \o value.value
                 /\ value.tag = "ImmutableOrOwned"
                       => wire = <<1, 0>> \o ObjectReferenceBinary(value.object_ref)
                 /\ value.tag = "Shared"
                       => wire = <<1, 1>> \o EncOpaque(value.object_id)
                                  \o EncU64(value.initial_shared_version)
                                  \o EncBool(value.mutable)
                 /\ value.tag = "Receiving"
                       => wire = <<1, 2>> \o ObjectReferenceBinary(value.object_ref)
           /\ (Decoded /\ result.ok) =>
                 /\ result.val.tag = "Pure" <=> wire[1] = 0
                 /\ result.val.tag = "ImmutableOrOwned" <=> (wire[1] = 1 /\ wire[2] = 0)
                 /\ result.val.tag = "Shared" <=> (wire[1] = 1 /\ wire[2] = 1)
                 /\ result.val.tag = "Receiving" <=> (wire[1] = 1 /\ wire[2] = 2)

C14_Witness ==
    /\ entity = "InputArgument" /\ mode = "Binary" /\ pc = "decoded"
    /\ tampered /\ value.tag = "ImmutableOrOwned"
    /\ wire[1] = 1 /\ wire[2] = 2
    /\ result = Ok(Receiving(value.object_ref), <<>>)

\* C15: in Textual mode the four InputArgument variants encode to one object
\* whose "type" is pure, immutable_or_owned, shared or receiving, with the
\* variant's fields in that same object; Pure's value is base64 text (bytes
\* 1, 2, 3, 4 as "AQIDBA=="), Shared carries object_id, initial_shared_version
\* and mutable; decoding the shape returns the value.
C15_InputArgumentTextualShape ==
    (entity = "InputArgument" /\ mode = "Textual" /\ ~tampered /\ pc # "start")
        => /\ value.tag = "Pure" =>
                 /\ wire = ("type" :> JName("pure"))
                           @@ ("value" :> JText(Base64Encode(value.value)))
                 /\ value.value = <<1, 2, 3, 4>>
                       => wire["value"].chars = <<"A", "Q", "I", "D", "B", "A", "=", "=">>
           /\ value.tag \in {"ImmutableOrOwned", "Receiving"} =>
                 /\ wire["type"] = JName(IF value.tag = "Receiving" THEN "receiving"
                                         ELSE "immutable_or_owned")
                 /\ DOMAIN wire = {"type", "object_id", "version", "digest"}
                 /\ wire["object_id"] = JOpaque(value.object_ref.object_id)
                 /\ wire["digest"] = JOpaque(value.object_ref.digest)
           /\ value.tag = "Shared" =>
                 /\ wire["type"] = JName("shared")
                 /\ DOMAIN wire = {"type", "object_id", "initial_shared_version", "mutable"}
                 /\ wire["object_id"] = JOpaque(value.object_id)
                 /\ wire["initial_shared_version"].j = "text"
                 /\ wire["mutable"] = JBool(value.mutable)
           /\ Decoded => result = Ok(value, <<>>)

C15_Witness ==
    /\ entity = "InputArgument" /\ mode = "Textual" /\ ~tampered /\ pc = "decoded"
    /\ value = Pure(<<1, 2, 3, 4>>)
    /\ wire["value"] = JText(<<"A", "Q", "I", "D", "B", "A", "=", "=">>)
    /\ result = Ok(value, <<>>)

\* The eight bytes of a 64-bit value, least significant first.
LittleEndian(n) ==
    <<n[1] % 256, n[1] \div 256, n[2] % 256, n[2] \div 256,
      n[3] % 256, n[3] \div 256, n[4] % 256, n[4] \div 256>>

\* The decimal text of a 64-bit value; 2^53 + 1 is written out in full.
DecimalText(n) ==
    IF n = <<0, 0, 0, 0>> THEN <<"0">>
    ELSE IF n = <<1, 0, 0, 32>>
         THEN <<"9", "0", "0", "7", "1", "9", "9", "2", "5", "4", "7", "4", "0", "9", "9", "3">>
    ELSE DecimalDigits(n)

\* The 64-bit field of the value being encoded, where it has one.
VersionField ==
    IF entity = "InputArgument" /\ value.tag = "Shared"
    THEN [name |-> "initial_shared_version", n |-> value.initial_shared_version,
          at |-> 3, got |-> IF result.ok THEN result.val.initial_shared_version ELSE <<>>]
    ELSE [name |-> "bridge_object_version", n |-> value.bridge_object_version,
          at |-> 1, got |-> IF result.ok THEN result.val.bridge_object_version ELSE <<>>]

\* C16: initial_shared_version of InputArgument::Shared and
\* bridge_object_version of EndOfEpochTransactionKind::BridgeCommitteeInit are
\* written in Textual mode as the decimal string of the value (also above
\* 2^53) and parsed back to it, and in Binary mode as eight little-endian bytes.
C16_SixtyFourBitFields ==
    (/\ \/ entity = "InputArgument" /\ value.tag = "Shared"
        \/ entity = "EndOfEpochTransactionKind" /\ value.tag = "BridgeCommitteeInit"
     /\ ~tampered /\ pc # "start")
        => /\ mode = "Textual" =>
                 /\ wire[VersionField.name] = JText(DecimalText(VersionField.n))
                 /\ Decoded => (result.ok /\ VersionField.got = VersionField.n)
           /\ mode = "Binary" =>
                 /\ SubSeq(wire, VersionField.at + 1, VersionField.at + 8)
                       = LittleEndian(VersionField.n)
                 /\ Len(wire) = VersionField.at + 8
                                + (IF entity = "InputArgument" THEN 1 ELSE 0)
                 /\ Decoded => (result.ok /\ VersionField.got = VersionField.n)

C16_Witness ==
    /\ entity = "InputArgument" /\ mode = "Textual" /\ ~tampered /\ pc = "decoded"
    /\ value.tag = "Shared" /\ value.initial_shared_version = <<1, 0, 0, 32>>
    /\ Len(wire["initial_shared_version"].chars) = 16
    /\ result.ok /\ result.val.initial_shared_version = <<1, 0, 0, 32>>

\* The discriminants and names the format fixes for TransactionKind, Command
\* and the unit variants of EndOfEpochTransactionKind.
StableIndex ==
    [TransactionKind |->
        [ProgrammableTransaction |-> 0, ChangeEpoch |-> 1, Genesis |-> 2,
         ConsensusCommitPrologue |-> 3, AuthenticatorStateUpdate |-> 4, EndOfEpoch |-> 5,
         RandomnessStateUpdate |-> 6, ConsensusCommitPrologueV2 |-> 7],
     Command |->
        [MoveCall |-> 0, TransferObjects |-> 1, SplitCoins |-> 2, MergeCoins |-> 3,
         Publish |-> 4, MakeMoveVector |-> 5, Upgrade |-> 6],
     EndOfEpochTransactionKind |->
        [AuthenticatorStateCreate |-> 1, RandomnessStateCreate |-> 3,
         DenyListStateCreate |-> 4]]

StableName ==
    [TransactionKind |->
        [ProgrammableTransaction |-> "programmable_transaction",
         ChangeEpoch |-> "change_epoch", Genesis |-> "genesis",
         ConsensusCommitPrologue |-> "consensus_commit_prologue",
         AuthenticatorStateUpdate |-> "authenticator_state_update",
         EndOfEpoch |-> "end_of_epoch",
         RandomnessStateUpdate |-> "randomness_state_update",
         ConsensusCommitPrologueV2 |-> "consensus_commit_prologue_v2"],
     Command |->
        [MoveCall |-> "move_call", TransferObjects |-> "transfer_objects",
         SplitCoins |-> "split_coins", MergeCoins |-> "merge_coins",
         Publish |-> "publish", MakeMoveVector |-> "make_move_vector",
         Upgrade |-> "upgrade"],
     EndOfEpochTransactionKind |->
        [AuthenticatorStateCreate |-> "authenticator_state_create",
         RandomnessStateCreate |-> "randomness_state_create",
         DenyListStateCreate |-> "deny_list_state_create"]]

\* C17: in Binary mode a sum-type value starts with the zero-based declaration
\* index of its variant (TransactionKind 0..7, Command 0..6, in the listed
\* order), the payload follows, and a unit variant adds no bytes; in Textual
\* mode the variant is named in snake_case under "kind" ("command" for Command).
C17_DiscriminantStability ==
    (/\ entity \in DOMAIN StableIndex /\ value.tag \in DOMAIN StableIndex[entity]
     /\ ~tampered /\ pc # "start")
        => /\ mode = "Binary" =>
                 /\ wire[1] = StableIndex[entity][value.tag]
                 /\ "payload" \in DOMAIN value => Tail(wire) = EncOpaque(value.payload)
                 /\ "commands" \in DOMAIN value =>
                       /\ wire[2] = Len(value.commands)
                       /\ Len(wire) >= 2 + Len(value.commands)
                 /\ DOMAIN value = {"tag"} => Len(wire) = 1
           /\ mode = "Textual" =>
                 /\ (IF entity = "Command" THEN "command" ELSE "kind") \in DOMAIN wire
                 /\ wire[IF entity = "Command" THEN "command" ELSE "kind"]
                       = JName(StableName[entity][value.tag])
                 /\ DOMAIN value = {"tag"} => DOMAIN wire = {"kind"}

C17_Witness ==
    /\ entity = "TransactionKind" /\ mode = "Binary" /\ ~tampered /\ pc = "decoded"
    /\ value.tag = "ConsensusCommitPrologueV2" /\ wire[1] = 7
    /\ result = Ok(value, <<>>)

\* C18: in Binary mode a Transaction is the version discriminant 0, then kind,
\* sender, gas payment and expiration in that order; in Textual mode it is one
\* object with "version" = "1", "sender", "gas_payment", "expiration" and the
\* kind's discriminant and fields in that same object, not under a sub-object.
C18_TransactionLayout ==
    (entity = "Transaction" /\ ~tampered /\ pc # "start")
        => /\ mode = "Binary" =>
                 /\ wire[1] = 0
                 /\ wire[2] = StableIndex["TransactionKind"][value.kind.tag]
                 /\ SubSeq(wire, 2, Len(wire) - 3) = TransactionKindSerialize(value.kind, FALSE)
                 /\ SubSeq(wire, Len(wire) - 2, Len(wire))
                       = <<value.sender, value.gas_payment, value.expiration>>
           /\ mode = "Textual" =>
                 /\ DOMAIN wire = {"version", "sender", "gas_payment", "expiration"}
                                  \cup DOMAIN TransactionKindSerialize(value.kind, TRUE)
                 /\ wire["version"] = JName("1")
                 /\ wire["sender"] = JOpaque(value.sender)
                 /\ wire["gas_payment"] = JOpaque(value.gas_payment)
                 /\ wire["expiration"] = JOpaque(value.expiration)
                 /\ wire["kind"] = JName(StableName["TransactionKind"][value.kind.tag])
                 /\ \A f \in DOMAIN TransactionKindSerialize(value.kind, TRUE) :
                       wire[f] = TransactionKindSerialize(value.kind, TRUE)[f]

C18_Witness ==
    /\ entity = "Transaction" /\ mode = "Binary" /\ ~tampered /\ pc = "decoded"
    /\ value.kind.tag = "ChangeEpoch"
    /\ value.sender = 1 /\ value.gas_payment = 0 /\ value.expiration = 1
    /\ wire = <<0, 1, value.kind.payload, 1, 0, 1>>
    /\ result = Ok(value, <<>>)

\* The sum-type entities: the number of variants each declares, the names it
\* knows, the field that carries the name, and the enum an error names.
SumTypes ==
    [Argument |->
        [count |-> 4, field |-> "type", binary |-> "BinaryArgument", textual |-> "Argument",
         names |-> {"gas_coin", "input", "result", "nested_result"}],
     InputArgument |->
        [count |-> 2, field |-> "type", binary |-> "CallArg",
         textual |-> "ReadableInputArgument",
         names |-> {"pure", "immutable_or_owned", "shared", "receiving"}],
     Command |->
        [count |-> 7, field |-> "command", binary |-> "BinaryCommand",
         textual |-> "ReadableCommand",
         names |-> {"move_call", "transfer_objects", "split_coins", "merge_coins",
                    "publish", "make_move_vector", "upgrade"}],
     EndOfEpochTransactionKind |->
        [count |-> 7, field |-> "kind", binary |-> "BinaryEndOfEpochTransactionKind",
         textual |-> "ReadableEndOfEpochTransactionKind",
         names |-> {"change_epoch", "authenticator_state_create",
                    "authenticator_state_expire", "randomness_state_create",
                    "deny_list_state_create", "bridge_state_create",
                    "bridge_committee_init"}],
     TransactionKind |->
        [count |-> 8, field |-> "kind", binary |-> "BinaryTransactionKind",
         textual |-> "TransactionKind",
         names |-> {"programmable_transaction", "change_epoch", "genesis",
                    "consensus_commit_prologue", "authenticator_state_update",
                    "end_of_epoch", "randomness_state_update",
                    "consensus_commit_prologue_v2"}]]

\* A one-byte variant index at position i of the wire that is n or more.
IndexBeyond(i, n) == Len(wire) >= i /\ wire[i] >= n /\ wire[i] < 128

C20_VersionGate ==
    (entity = "Transaction" /\ pc # "start")
        => /\ ~tampered =>
                 IF mode = "Binary" THEN wire[1] = 0
                 ELSE "version" \in DOMAIN wire /\ wire["version"] = JName("1")
           /\ (Decoded /\ result.ok) =>
                 IF mode = "Binary" THEN wire[1] = 0
                 ELSE "version" \in DOMAIN wire /\ wire["version"] = JName("1")
           /\ (Decoded /\ mode = "Binary" /\ IndexBeyond(1, 1)) => ~result.ok
           /\ (Decoded /\ mode = "Textual" /\ "version" \notin DOMAIN wire) => ~result.ok
           /\ (Decoded /\ mode = "Textual" /\ "version" \in DOMAIN wire
               /\ wire["version"] # JName("1")) => ~result.ok
           /\ pc \in {"reencoded", "transcoded"} =>
                 IF mode = "Binary" THEN rewire[1] = 0 ELSE rewire["version"] = JName("1")

C20_Witness ==
    /\ entity = "Transaction" /\ mode = "Textual" /\ pc = "decoded" /\ tampered
    /\ "version" \notin DOMAIN wire
    /\ {"kind", "sender", "gas_payment", "expiration"} \subseteq DOMAIN wire
    /\ ~result.ok

\* The binary encoding of the value the wire form was made from.
Encoding == Encode(entity, value, FALSE, framing)

ProperPrefix(s, t) == Len(s) < Len(t) /\ s = SubSeq(t, 1, Len(s))

\* The wire form differs from the encoding in the one byte at position i.
OnlyByteChanged(i) ==
    /\ Len(wire) = Len(Encoding) /\ Len(wire) >= i
    /\ \A j \in 1..Len(wire) : (wire[j] # Encoding[j]) <=> j = i

\* C21: a top-level Binary decode fails, returning no value, when bytes are
\* left after a complete value, when the input ends before the value is
\* complete, or when a declared sequence length differs from the number of
\* elements present; it succeeds only when the input is consumed exactly.
C21_TrailingShortInput ==
    (Decoded /\ mode = "Binary" /\ framing = "sized")
        => /\ ProperPrefix(Encoding, wire) => ~result.ok
           /\ ProperPrefix(wire, Encoding) => ~result.ok
           /\ (entity = "InputArgument" /\ value.tag = "Pure" /\ OnlyByteChanged(2))
                 => ~result.ok
           /\ (entity = "TransactionKind" /\ value.tag = "EndOfEpoch" /\ OnlyByteChanged(2))
                 => ~result.ok
           /\ (entity = "SignedTransaction"
               /\ OnlyByteChanged(Len(wire) - Len(value.signatures)))
                 => ~result.ok
           /\ result.ok => Encode(entity, result.val, FALSE, framing) = wire

C21_Witness ==
    /\ pc = "decoded" /\ mode = "Binary" /\ framing = "sized"
    /\ entity = "Transaction" /\ ProperPrefix(Encoding, wire)
    /\ result = Err(SerdeError("trailing_input", "input"))

\* The largest 64-bit value, in decimal.
MaxU64Text ==
    <<"1", "8", "4", "4", "6", "7", "4", "4", "0", "7",
      "3", "7", "0", "9", "5", "5", "1", "6", "1", "5">>

DigitOf(c) == CHOOSE d \in 0..9 : DigitChars[d + 1] = c

\* Two digit texts of one length, compared as numbers.
RECURSIVE DigitsAtMost(_, _)
DigitsAtMost(a, b) ==
    \/ a = <<>>
    \/ DigitOf(Head(a)) < DigitOf(Head(b))
    \/ DigitOf(Head(a)) = DigitOf(Head(b)) /\ DigitsAtMost(Tail(a), Tail(b))

\* Digits, after an optional plus sign, of a number that fits 64 bits.
IsU64Text(chars) ==
    LET digits == IF chars # <<>> /\ Head(chars) = "+" THEN Tail(chars) ELSE chars IN
    /\ digits # <<>>
    /\ \A i \in DOMAIN digits : \E d \in DOMAIN DigitChars : DigitChars[d] = digits[i]
    /\ \/ Len(digits) < Len(MaxU64Text)
       \/ Len(digits) = Len(MaxU64Text) /\ DigitsAtMost(digits, MaxU64Text)

\* Whole groups of four characters of the alphabet, padded only at the end and
\* with no bits set past the last byte.
IsBase64Text(chars) ==
    LET n == Len(chars)
        pad == IF n > 0 /\ chars[n] = "="
               THEN (IF n > 1 /\ chars[n - 1] = "=" THEN 2 ELSE 1) ELSE 0
    IN
    /\ n % 4 = 0
    /\ \A i \in 1..(n - pad) : SextetValue(chars[i]) < 64
    /\ pad = 1 => SextetValue(chars[n - 1]) % 4 = 0
    /\ pad = 2 => SextetValue(chars[n - 2]) % 16 = 0

\* The wire form names the variant given under the field given.
NameAt(field, name) == field \in DOMAIN wire /\ wire[field] = JName(name)

\* The textual scalar of the wire form under the name given, when it is text.
TextAt(name) == name \in DOMAIN wire /\ wire[name].j = "text"

\* C22: in Textual mode, decoding a Shared InputArgument or a
\* BridgeCommitteeInit whose decimal-string field is not the text of a
\* non-negative integer that fits 64 bits fails with a malformed-integer error,
\* and decoding a Pure InputArgument whose value is not valid base64 fails with
\* a malformed-byte-payload error; no value is returned.
C22_MalformedScalarRejected ==
    (Decoded /\ mode = "Textual")
        => /\ (/\ entity = "InputArgument" /\ value.tag = "Shared"
               /\ DOMAIN wire = {"type", "object_id", "initial_shared_version", "mutable"}
               /\ NameAt("type", "shared")
               /\ TextAt("initial_shared_version")
               /\ ~IsU64Text(wire["initial_shared_version"].chars))
                 => result = Err(SerdeError("malformed_integer", "u64"))
           /\ (/\ entity = "EndOfEpochTransactionKind" /\ value.tag = "BridgeCommitteeInit"
               /\ NameAt("kind", "bridge_committee_init")
               /\ TextAt("bridge_object_version")
               /\ ~IsU64Text(wire["bridge_object_version"].chars))
                 => result = Err(SerdeError("malformed_integer", "u64"))
           /\ (/\ entity = "InputArgument" /\ value.tag = "Pure"
               /\ NameAt("type", "pure")
               /\ TextAt("value") /\ ~IsBase64Text(wire["value"].chars))
                 => result = Err(SerdeError("malformed_byte_payload", "base64"))
           /\ (/\ entity \in {"InputArgument", "EndOfEpochTransactionKind"} /\ result.ok
               /\ \E name \in {"initial_shared_version", "bridge_object_version"} :
                     TextAt(name))
                 => \A name \in {"initial_shared_version", "bridge_object_version"} :
                       TextAt(name) => IsU64Text(wire[name].chars)
           /\ (entity = "InputArgument" /\ result.ok /\ TextAt("value"))
                 => IsBase64Text(wire["value"].chars)

C22_Witness ==
    /\ pc = "decoded" /\ mode = "Textual" /\ tampered
    /\ entity = "InputArgument" /\ value.tag = "Shared"
    /\ TextAt("initial_shared_version")
    /\ Len(wire["initial_shared_version"].chars) = Len(MaxU64Text)
    /\ result = Err(SerdeError("malformed_integer", "u64"))

\* The names of the variants the command lists are built from.
ElementKindName ==
    [AuthenticatorStateCreate |-> "authenticator_state_create",
     ChangeEpoch |-> "change_epoch",
     BridgeCommitteeInit |-> "bridge_committee_init"]

\* C25: TransactionKind::EndOfEpoch(list) is written in Textual mode as "kind" =
\* "end_of_epoch" with the list under "commands", each element carrying its own
\* "kind", and in Binary mode as discriminant 5 and the length-prefixed list with
\* no field name; decoding returns the same elements in the same order, unit
\* variants and the empty list included.
C25_EndOfEpochCommandList ==
    (/\ entity = "TransactionKind" /\ value.tag = "EndOfEpoch"
     /\ ~tampered /\ pc # "start")
        => /\ mode = "Textual" =>
                 /\ DOMAIN wire = {"kind", "commands"}
                 /\ wire["kind"] = JName("end_of_epoch")
                 /\ wire["commands"].j = "list"
                 /\ Len(wire["commands"].items) = Len(value.commands)
                 /\ \A i \in DOMAIN value.commands :
                       /\ wire["commands"].items[i].j = "obj"
                       /\ "kind" \in DOMAIN wire["commands"].items[i].fields
                       /\ wire["commands"].items[i].fields["kind"]
                             = JName(ElementKindName[value.commands[i].tag])
                       /\ value.commands[i].tag = "AuthenticatorStateCreate"
                             => DOMAIN wire["commands"].items[i].fields = {"kind"}
           /\ mode = "Binary" =>
                 wire = <<5, Len(value.commands)>>
                        \o Concat([i \in DOMAIN value.commands |->
                                      EndOfEpochSerialize(value.commands[i], FALSE)])
           /\ Decoded =>
                 /\ result.ok
                 /\ Len(result.val.commands) = Len(value.commands)
                 /\ \A i \in DOMAIN value.commands :
                       result.val.commands[i] = value.commands[i]

C25_Witness ==
    /\ entity = "TransactionKind" /\ mode = "Textual" /\ ~tampered /\ pc = "decoded"
    /\ value.tag = "EndOfEpoch" /\ Len(value.commands) = 2
    /\ value.commands[1].tag = "AuthenticatorStateCreate"
    /\ value.commands[2].tag = "BridgeCommitteeInit"
    /\ result = Ok(value, <<>>)

\* The fields verify_module looks at: those of the structs with declared
\* fields and of the variants of the enums, each with its datatype's handle
\* and where it stands (definition, variant, field; counted from 0).
FieldSites ==
    UNION {{[kind |-> "StructDefinition",
             handle |-> module.datatype_handles[module.struct_defs[i].struct_handle + 1],
             ty |-> module.struct_defs[i].field_information.fields[f].signature,
             idx |-> i - 1, variant |-> 0, field |-> f - 1] :
               f \in DOMAIN module.struct_defs[i].field_information.fields} :
           i \in {j \in DOMAIN module.struct_defs :
                     module.struct_defs[j].field_information.info = "Declared"}}
    \cup
    UNION {UNION {{[kind |-> "EnumDefinition",
                    handle |-> module.datatype_handles[module.enum_defs[i].enum_handle + 1],
                    ty |-> module.enum_defs[i].variants[v].fields[f].signature,
                    idx |-> i - 1, variant |-> v - 1, field |-> f - 1] :
                      f \in DOMAIN module.enum_defs[i].variants[v].fields} :
                  v \in DOMAIN module.enum_defs[i].variants} :
           i \in DOMAIN module.enum_defs}

\* What the datatype's declared abilities ask of each field: copy, drop and
\* store ask for themselves, key asks for store.
Needed(site) ==
    (site.handle.abilities \ {"Key"})
    \cup (IF "Key" \in site.handle.abilities THEN {"Store"} ELSE {})

\* The abilities of the field's type, every type parameter having them all.
Found(site) ==
    Abilities(module, site.ty,
              [p \in DOMAIN site.handle.type_parameters |-> {"Copy", "Drop", "Store", "Key"}])

LookupFails(site) == ~Found(site).ok

Offending(site) == Found(site).ok /\ ~(Needed(site) \subseteq Found(site).val)

Before(a, b) ==
    \/ a.kind = "StructDefinition" /\ b.kind = "EnumDefinition"
    \/ /\ a.kind = b.kind
       /\ \/ a.idx < b.idx
          \/ a.idx = b.idx /\ a.variant < b.variant
          \/ a.idx = b.idx /\ a.variant = b.variant /\ a.field < b.field

\* FIELD_MISSING_TYPE_ABILITY located at the site's definition, and for an enum
\* at its variant and field as well.
Located(site) ==
    [status |-> "FIELD_MISSING_TYPE_ABILITY",
     indices |-> IF site.kind = "StructDefinition"
                 THEN <<<<"StructDefinition", site.idx>>>>
                 ELSE <<<<"EnumDefinition", site.idx>>, <<"VariantTag", site.variant>>,
                        <<"FieldDefinition", site.field>>>>,
     location |-> "Module"]

FirstOffending(site) ==
    /\ Offending(site)
    /\ \A other \in FieldSites : Offending(other) => ~Before(other, site)

\* The first field in scan order that offends or whose lookup fails.
FirstStop(site) ==
    /\ (Offending(site) \/ LookupFails(site))
    /\ \A other \in FieldSites :
          (Offending(other) \/ LookupFails(other)) => ~Before(other, site)

\* C27 as stated: whenever a module has an offending field, verify_module
\* returns FIELD_MISSING_TYPE_ABILITY located at the first offending field in
\* scan order.
C27_FirstOffendingReported ==
    pc = "verified"
        => \A site \in FieldSites : FirstOffending(site) => verdict = Err(Located(site))

\* C27, amended: verify_module stops at the first field in scan order that
\* offends or whose ability lookup fails; when that field offends it returns
\* FIELD_MISSING_TYPE_ABILITY located at its struct definition, or at its enum
\* definition, variant and field, and when its lookup fails it returns the
\* lookup's error; no later field is reported.
C27_FirstStopReported ==
    pc = "verified"
        => \A site \in FieldSites :
              FirstStop(site)
                  => IF Offending(site) THEN verdict = Err(Located(site))
                     ELSE /\ ~verdict.ok
                          /\ verdict.err.status = Found(site).err.status
                          /\ verdict.err.indices = <<>>

C27_Witness ==
    /\ pc = "verified"
    /\ \E site \in FieldSites :
          /\ FirstStop(site) /\ Offending(site)
          /\ site.kind = "EnumDefinition" /\ site.variant = 1 /\ site.field = 1
          /\ \E later \in FieldSites : Before(site, later) /\ Offending(later)
          /\ verdict = Err(Located(site))

\* C28: a struct whose field information is Native is skipped and never makes
\* verify_module fail, and a field whose type is one of the datatype's type
\* parameters never makes it fail, whatever abilities the datatype declares:
\* the module passes as soon as all its other fields do.
C28_Exemptions ==
    pc = "verified"
        => /\ (\A site \in FieldSites :
                  site.ty.sig # "TypeParameter" => ~Offending(site) /\ ~LookupFails(site))
                 => verdict.ok
           /\ (~verdict.ok /\ verdict.err.indices # <<>>
               /\ verdict.err.indices[1][1] = "StructDefinition")
                 => /\ module.struct_defs[verdict.err.indices[1][2] + 1]
                          .field_information.info = "Declared"
                    /\ \E site \in FieldSites :
                          /\ site.kind = "StructDefinition"
                          /\ site.idx = verdict.err.indices[1][2]
                          /\ site.ty.sig # "TypeParameter"
           /\ (~verdict.ok /\ verdict.err.indices # <<>>
               /\ verdict.err.indices[1][1] = "EnumDefinition")
                 => module.enum_defs[verdict.err.indices[1][2] + 1]
                       .variants[verdict.err.indices[2][2] + 1]
                       .fields[verdict.err.indices[3][2] + 1].signature.sig # "TypeParameter"

C28_Witness ==
    /\ pc = "verified" /\ verdict.ok
    /\ \E s \in DOMAIN module.struct_defs :
          /\ module.struct_defs[s].field_information.info = "Native"
          /\ module.datatype_handles[module.struct_defs[s].struct_handle + 1].abilities
                = {"Drop", "Key"}
    /\ \E site \in FieldSites :
          /\ site.ty.sig = "TypeParameter" /\ site.kind = "StructDefinition"
          /\ site.handle.abilities = {"Drop", "Key"}
          /\ site.handle.type_parameters[1].constraints = {"Store"}
    /\ \E site \in FieldSites :
          site.ty.sig = "TypeParameter" /\ site.kind = "EnumDefinition"

====
